---- MODULE Spec2Model ----
(***************************************************************************)
(* A model of netkit-packet: the bit-field accessor framework              *)
(* (utils/field.rs), the Eth / Ipv4 / Tcp / Udp layer views and their      *)
(* builders.                                                               *)
(*                                                                         *)
(* Memory is a sequence of bytes (0..255).  An integer storage value is a  *)
(* sequence of bits, most significant bit first, so that 32- and 64-bit    *)
(* values keep their full width; an array storage value is a sequence of   *)
(* bytes in index order.                                                   *)
(***************************************************************************)
EXTENDS Integers, Sequences, FiniteSets, TLC

VARIABLES
    fspec,      \* SpecField: the field's descriptor (FieldSpec + MSB flag)
    fmem,       \* SpecField: the bytes of Field::value, in memory order
    fprev,      \* SpecField: fmem as it was before the last set
    flast,      \* SpecField: <<the argument of the last set>>, or NoValue
    fsets,      \* SpecField: number of sets done so far
    fgot,       \* SpecField: <<the result of the last get>>, or NoValue
    buf,        \* SpecLayer: the caller's byte buffer
    view,       \* SpecLayer: the current layer view, or NoView
    out,        \* SpecLayer: the result of the last operation on the view
    builder,    \* SpecBuilder: the builder's fields
    calls,      \* SpecBuilder: number of setter calls made on the builder
    built,      \* SpecBuilder: the result of build(), or NotBuilt
    dname,      \* SpecName: the DnsName under study, or NoName
    liter,      \* SpecName: the DnsNameLabelIter over dname, or NoIter
    shown,      \* SpecName: the result of formatting dname, or NotShown
    label,      \* SpecName: a DnsLabel and what its accessors return, or NoLabel
    question,   \* SpecDns: the last DnsQuestion made (new or build), or NoQuestion
    dbuilder,   \* SpecDns: the DnsBuilder's fields and questions
    msg,        \* SpecDns: the Dns message under study, or NoMsg
    qiter,      \* SpecDns: the DnsQuestionIter over msg, or NoIter
    input,      \* SpecTarget, SpecUnderlay: the arguments of the call under study
    result      \* SpecTarget, SpecUnderlay: what the call returned, or NoResult

vars == <<fspec, fmem, fprev, flast, fsets, fgot, buf, view, out, builder, calls, built,
          dname, liter, shown, label, question, dbuilder, msg, qiter, input, result>>
fieldVars == <<fspec, fmem, fprev, flast, fsets, fgot>>
layerVars == <<buf, view, out>>
builderVars == <<builder, calls, built>>
nameVars == <<dname, liter, shown, label>>
dnsVars == <<question, dbuilder, msg, qiter>>
callVars == <<input, result>>

(***************************************************************************)
(* Bits and bytes                                                          *)
(***************************************************************************)
Zeros(n) == [i \in 1..n |-> 0]
Ones(n) == [i \in 1..n |-> 1]
Reverse(s) == [i \in 1..Len(s) |-> s[Len(s) + 1 - i]]

\* the 8 bits of a byte, most significant first
ByteBits(b) == [i \in 1..8 |-> (b \div (2 ^ (8 - i))) % 2]

\* the number a bit sequence (of at most 30 bits) denotes
RECURSIVE BitsNat(_)
BitsNat(bs) ==
    IF Len(bs) = 0 THEN 0
    ELSE 2 * BitsNat(SubSeq(bs, 1, Len(bs) - 1)) + bs[Len(bs)]

\* the w-bit encoding of a natural number n < 2^30
NatBits(n, w) == [i \in 1..w |-> IF w - i > 29 THEN 0 ELSE (n \div (2 ^ (w - i))) % 2]

\* big-endian concatenation of bytes into bits, and back
BytesBits(bytes) ==
    [i \in 1..(8 * Len(bytes)) |-> ByteBits(bytes[((i - 1) \div 8) + 1])[((i - 1) % 8) + 1]]
BitsBytes(bits) ==
    [k \in 1..(Len(bits) \div 8) |-> BitsNat(SubSeq(bits, 8 * (k - 1) + 1, 8 * k))]

BitsAnd(a, b) == [i \in 1..Len(a) |-> a[i] * b[i]]
BitsOr(a, b) == [i \in 1..Len(a) |-> IF a[i] + b[i] > 0 THEN 1 ELSE 0]
BitsNot(a) == [i \in 1..Len(a) |-> 1 - a[i]]
\* the low w bits of a bit sequence (a narrowing `as` cast)
LowBits(a, w) == SubSeq(a, Len(a) - w + 1, Len(a))
\* zero-extension to w bits (a widening `as` cast)
ZeroExtend(a, w) == Zeros(w - Len(a)) \o a

\* a u64 mask constant written as its significant bytes, e.g. Mask64(<<15, 0>>)
\* is 0x0F00; it is kept as the 8 big-endian bytes of the u64
Mask64(bytes) == [i \in 1..(8 - Len(bytes)) |-> 0] \o bytes
U64_MAX == [i \in 1..8 |-> 255]

(***************************************************************************)
(* Underlay: the storage primitives (utils/field.rs, trait Underlay)       *)
(***************************************************************************)
U8 == [kind |-> "int", size |-> 1]
U16 == [kind |-> "int", size |-> 2]
U32 == [kind |-> "int", size |-> 4]
U64 == [kind |-> "int", size |-> 8]
Arr(n) == [kind |-> "arr", size |-> n]

\* impl_underlay!(u8, u16, u32, u64): `self << shift`, `self >> shift`,
\* `self & mask as Self`, `self & rhs`, `self | rhs` on a value of Len(x) bits
IntShl(x, s) == SubSeq(x, s + 1, Len(x)) \o Zeros(s)
IntShr(x, s) == Zeros(s) \o SubSeq(x, 1, Len(x) - s)
IntMask(x, m) == BitsAnd(x, LowBits(m, Len(x)))
IntBitand(x, y) == BitsAnd(x, y)
IntBitor(x, y) == BitsOr(x, y)

\* impl_underlay!(3, 5, 6, 7): the array is copied into the low bytes of a
\* zeroed [u8; 8], shifted as a u64 and the low $l bytes are returned
ByteAnd(a, b) == BitsNat(BitsAnd(ByteBits(a), ByteBits(b)))
ByteOr(a, b) == BitsNat(BitsOr(ByteBits(a), ByteBits(b)))
ArrTmp(a) == [i \in 1..8 |-> IF i <= 8 - Len(a) THEN 0 ELSE a[i - (8 - Len(a))]]
ArrShl(a, s) ==
    LET tmp == BytesBits(ArrTmp(a))
        shifted == BitsBytes(SubSeq(tmp, s + 1, 64) \o Zeros(s))
    IN  SubSeq(shifted, 8 - Len(a) + 1, 8)
ArrShr(a, s) ==
    LET tmp == BytesBits(ArrTmp(a))
        shifted == BitsBytes(Zeros(s) \o SubSeq(tmp, 1, 64 - s))
    IN  SubSeq(shifted, 8 - Len(a) + 1, 8)
ArrMask(a, m) ==
    LET mask == BitsBytes(m)
    IN  [i \in 1..Len(a) |-> ByteAnd(a[i], mask[8 - Len(a) + i])]
ArrBitand(a, b) == [i \in 1..Len(a) |-> ByteAnd(a[i], b[i])]
ArrBitor(a, b) == [i \in 1..Len(a) |-> ByteOr(a[i], b[i])]

\* The trait methods, dispatched on the storage type.  from_be / from_le take
\* the bytes of Field::value in memory order: for an integer, from_be of the
\* native value is the big-endian reading of those bytes on any host, and
\* from_le the little-endian one; for an array from_be is the identity and
\* from_le reverses.
FromBe(U, mem) == IF U.kind = "int" THEN BytesBits(mem) ELSE mem
FromLe(U, mem) == IF U.kind = "int" THEN BytesBits(Reverse(mem)) ELSE Reverse(mem)
ToBe(U, x) == IF U.kind = "int" THEN BitsBytes(x) ELSE x
\* to_le that leaves the bytes in big-endian order
ToLeAsBe(U, x) == IF U.kind = "int" THEN BitsBytes(x) ELSE x
ToLe(U, x) == IF U.kind = "int" THEN Reverse(BitsBytes(x)) ELSE Reverse(x)
Shl(U, x, s) == IF U.kind = "int" THEN IntShl(x, s) ELSE ArrShl(x, s)
Shr(U, x, s) == IF U.kind = "int" THEN IntShr(x, s) ELSE ArrShr(x, s)
\* a mask that keeps every bit
MaskKeepsAll(U, x, m) == x
Mask(U, x, m) == IF U.kind = "int" THEN IntMask(x, m) ELSE ArrMask(x, m)
Bitand(U, x, y) == IF U.kind = "int" THEN IntBitand(x, y) ELSE ArrBitand(x, y)
Bitor(U, x, y) == IF U.kind = "int" THEN IntBitor(x, y) ELSE ArrBitor(x, y)

(***************************************************************************)
(* Target: the logical types and their conversions (trait Target)          *)
(***************************************************************************)
\* an open enumeration derived with num_enum: `table` lists <<variant, number>>,
\* `catchAll` is the #[num_enum(catch_all)] variant that keeps the raw number
\* a catch-all that does not keep the number it was made from
EnumFromPrimitiveDropsRaw(table, catchAll, n) ==
    IF \E i \in DOMAIN table : table[i][2] = n
    THEN [name |-> table[CHOOSE i \in DOMAIN table : table[i][2] = n][1], raw |-> 0]
    ELSE [name |-> catchAll, raw |-> 0]
EnumFromPrimitive(table, catchAll, n) ==
    IF \E i \in DOMAIN table : table[i][2] = n
    THEN [name |-> table[CHOOSE i \in DOMAIN table : table[i][2] = n][1], raw |-> 0]
    ELSE [name |-> catchAll, raw |-> n]
EnumIntoPrimitive(table, catchAll, e) ==
    IF e.name = catchAll THEN e.raw
    ELSE table[CHOOSE i \in DOMAIN table : table[i][1] = e.name][2]

EthType ==
    << <<"Ipv4", \h0800>>, <<"Arp", \h0806>>, <<"FrameRelayArp", \h0808>>,
       <<"Vlan", \h8100>>, <<"Ipv6", \h86DD>> >>
EthTypeDefault == [name |-> "Reserved", raw |-> \hFFFF]

\* IpProtocol (layer/ip/protocal.rs) is an open enumeration over u8
IpProtocol == << <<"Tcp", 6>>, <<"Udp", 17>> >>

DnsOpCode ==
    << <<"Query", 0>>, <<"IQuery", 1>>, <<"Status", 2>>, <<"Notify", 4>>,
       <<"Update", 5>>, <<"DSO", 6>> >>
DnsRCode ==
    << <<"NoError", 0>>, <<"FormErr", 1>>, <<"ServFail", 2>>, <<"NXDomain", 3>>,
       <<"NotImp", 4>>, <<"Refused", 5>>, <<"YXDomain", 6>>, <<"YXRRSet", 7>>,
       <<"NXRRSet", 8>>, <<"NotAuth", 9>>, <<"NotZone", 10>>, <<"DSOTYPENI", 11>>,
       <<"BADVERS_BADSIG", 16>>, <<"BADKEY", 17>>, <<"BADTIME", 18>>,
       <<"BADMODE", 19>>, <<"BADNAME", 20>>, <<"BADALG", 21>>, <<"BADTRUNC", 22>>,
       <<"BADCOOKIE", 23>>, <<"Reserved", 65535>> >>

\* layer/dns/rrtype.rs and layer/dns/class.rs: open enumerations over u16
DnsRrType ==
    << <<"A", 1>>, <<"NS", 2>>, <<"MD", 3>>, <<"MF", 4>>, <<"CNAME", 5>>, <<"SOA", 6>>,
       <<"MB", 7>>, <<"MG", 8>>, <<"MR", 9>>, <<"NULL", 10>>, <<"WKS", 11>>,
       <<"PTR", 12>>, <<"HINFO", 13>>, <<"MINFO", 14>>, <<"MX", 15>>, <<"TXT", 16>>,
       <<"RP", 17>>, <<"AFSDB", 18>>, <<"X25", 19>>, <<"ISDN", 20>>, <<"RT", 21>>,
       <<"NSAP", 22>>, <<"NSAPPTR", 23>>, <<"SIG", 24>>, <<"KEY", 25>>, <<"PX", 26>>,
       <<"GPOS", 27>>, <<"AAAA", 28>>, <<"LOC", 29>>, <<"NXT", 30>>, <<"EID", 31>>,
       <<"NIMLOC", 32>>, <<"SRV", 33>>, <<"ATMA", 34>>, <<"NAPTR", 35>>, <<"KX", 36>>,
       <<"CERT", 37>>, <<"A6", 38>>, <<"DNAME", 39>>, <<"SINK", 40>>, <<"OPT", 41>>,
       <<"APL", 42>>, <<"DS", 43>>, <<"SSHFP", 44>>, <<"IPSECKEY", 45>>, <<"RRSIG", 46>>,
       <<"NSEC", 47>>, <<"DNSKEY", 48>>, <<"DHCID", 49>>, <<"NSEC3", 50>>,
       <<"NSEC3PARAM", 51>>, <<"TLSA", 52>>, <<"SMIMEA", 53>>, <<"HIP", 55>>,
       <<"NINFO", 56>>, <<"RKEY", 57>>, <<"TALINK", 58>>, <<"CDS", 59>>,
       <<"CDNSKEY", 60>>, <<"OPENPGPKEY", 61>>, <<"CSYNC", 62>>, <<"ZONEMD", 63>>,
       <<"SVCB", 64>>, <<"HTTPS", 65>>, <<"SPF", 99>>, <<"UINFO", 100>>, <<"UID", 101>>,
       <<"GID", 102>>, <<"UNSPEC", 103>>, <<"NID", 104>>, <<"L32", 105>>, <<"L64", 106>>,
       <<"LP", 107>>, <<"EUI48", 108>>, <<"EUI64", 109>>, <<"TKEY", 249>>,
       <<"TSIG", 250>>, <<"IXFR", 251>>, <<"AXFR", 252>>, <<"MAILB", 253>>,
       <<"MAILA", 254>>, <<"ANY", 255>>, <<"URI", 256>>, <<"CAA", 257>>, <<"AVC", 258>>,
       <<"DOA", 259>>, <<"AMTRELAY", 260>>, <<"TA", 32768>>, <<"DLV", 32769>> >>
DnsClass ==
    << <<"Internet", 1>>, <<"Chaos", 3>>, <<"Hesiod", 4>>, <<"None", 254>>, <<"Any", 255>> >>

\* bitflags TcpFlags: u8, most significant flag first
TcpFlags == <<"CWR", "ECE", "URG", "ACK", "PSH", "RST", "SYN", "FIN">>
\* from_bits taking the flags least significant first
TcpFlagsFromBitsLsbFirst(x) == {TcpFlags[i] : i \in {j \in 1..8 : x[9 - j] = 1}}
TcpFlagsFromBits(x) == {TcpFlags[i] : i \in {j \in 1..8 : x[j] = 1}}
TcpFlagsBits(flags) == [i \in 1..8 |-> IF TcpFlags[i] \in flags THEN 1 ELSE 0]

UintBits(T) == CASE T = "u8" -> 8 [] T = "u16" -> 16 [] T = "u32" -> 32 [] T = "u64" -> 64
IsUint(T) == T \in {"u8", "u16", "u32", "u64"}

\* Target::from_underlay for each (T, U) pair the crate implements
FromUnderlay(T, U, x) ==
    CASE IsUint(T) -> LowBits(x, UintBits(T))
      [] T = "bool" -> x # Zeros(8)
      [] T \in {"EthAddr", "Array"} -> [octets |-> x]
      [] T = "Ipv4Addr" -> [octets |-> BitsBytes(x)]
      [] T = "EthType" -> EnumFromPrimitive(EthType, "Reserved", BitsNat(x))
      [] T = "IpProtocol" -> EnumFromPrimitive(IpProtocol, "Reserved", BitsNat(x))
      [] T = "TcpFlags" -> TcpFlagsFromBits(x)
      [] T = "DnsOpCode" -> EnumFromPrimitive(DnsOpCode, "Unassigned", BitsNat(x))
      [] T = "DnsRCode" -> EnumFromPrimitive(DnsRCode, "Unassigned", BitsNat(ZeroExtend(x, 16)))
      [] T = "DnsRrType" -> EnumFromPrimitive(DnsRrType, "Reserved", BitsNat(x))
      [] T = "DnsClass" -> EnumFromPrimitive(DnsClass, "Reserved", BitsNat(x))

\* Target::into_underlay
IntoUnderlay(T, U, v) ==
    CASE IsUint(T) -> ZeroExtend(v, 8 * U.size)
      [] T = "bool" -> IF v THEN NatBits(1, 8) ELSE NatBits(0, 8)
      [] T \in {"EthAddr", "Array"} -> v.octets
      [] T = "Ipv4Addr" -> BytesBits(v.octets)
      [] T = "EthType" -> NatBits(EnumIntoPrimitive(EthType, "Reserved", v), 16)
      [] T = "IpProtocol" -> NatBits(EnumIntoPrimitive(IpProtocol, "Reserved", v), 8)
      [] T = "TcpFlags" -> TcpFlagsBits(v)
      [] T = "DnsOpCode" -> NatBits(EnumIntoPrimitive(DnsOpCode, "Unassigned", v), 8)
      [] T = "DnsRCode" -> LowBits(NatBits(EnumIntoPrimitive(DnsRCode, "Unassigned", v), 16), 8)
      [] T = "DnsRrType" -> NatBits(EnumIntoPrimitive(DnsRrType, "Reserved", v), 16)
      [] T = "DnsClass" -> NatBits(EnumIntoPrimitive(DnsClass, "Reserved", v), 16)

(***************************************************************************)
(* Field<F, MSB>: raw / get / set                                          *)
(***************************************************************************)
\* field_spec!(name, T, U, mask, shift) with the accessor's MSB flag
FieldSpec(n, T, U, m, s) == [name |-> n, T |-> T, U |-> U, mask |-> m, shift |-> s, msb |-> TRUE]
Lsb(F) == [F EXCEPT !.msb = FALSE]

FieldRaw(F, mem) ==
    LET value == IF F.msb THEN FromBe(F.U, mem) ELSE FromLe(F.U, mem)
        MASK == BytesBits(F.mask)
    IN  IF F.mask = U64_MAX /\ F.shift = 0 THEN value
        ELSE IF F.shift = 0 THEN Mask(F.U, value, MASK)
        ELSE Shr(F.U, Mask(F.U, value, MASK), F.shift)

FieldGet(F, mem) == FromUnderlay(F.T, F.U, FieldRaw(F, mem))

\* a set that stores the value alone and drops the storage's other bits
FieldSetDropsRest(F, mem, v) ==
    LET new_value == Shl(F.U, IntoUnderlay(F.T, F.U, v), F.shift)
    IN  IF F.msb THEN ToBe(F.U, new_value) ELSE ToLe(F.U, new_value)
\* a set that does not clear the field's bits first
FieldSetNoClear(F, mem, v) ==
    LET prev_value == IF F.msb THEN FromBe(F.U, mem) ELSE FromLe(F.U, mem)
        new_value == Bitor(F.U, prev_value, Shl(F.U, IntoUnderlay(F.T, F.U, v), F.shift))
    IN  IF F.msb THEN ToBe(F.U, new_value) ELSE ToLe(F.U, new_value)

FieldSet(F, mem, v) ==
    LET prev_value == IF F.msb THEN FromBe(F.U, mem) ELSE FromLe(F.U, mem)
        MASK == BytesBits(F.mask)
        new_value ==
            IF F.mask = U64_MAX /\ F.shift = 0 THEN IntoUnderlay(F.T, F.U, v)
            ELSE IF F.shift = 0
                 THEN Bitor(F.U, Mask(F.U, prev_value, BitsNot(MASK)),
                            IntoUnderlay(F.T, F.U, v))
                 ELSE Bitor(F.U, Mask(F.U, prev_value, BitsNot(MASK)),
                            Shl(F.U, IntoUnderlay(F.T, F.U, v), F.shift))
    IN  IF F.msb THEN ToBe(F.U, new_value) ELSE ToLe(F.U, new_value)

(***************************************************************************)
(* The field specifications of the crate                                   *)
(***************************************************************************)
\* layer/eth.rs
EthAddrSpec == FieldSpec("EthAddrSpec", "EthAddr", Arr(6), U64_MAX, 0)
EthTypeSpec == FieldSpec("EthTypeSpec", "EthType", U16, U64_MAX, 0)
\* layer/ip/v4.rs
VersionSpec == FieldSpec("VersionSpec", "u8", U8, Mask64(<<\hF0>>), 4)
IhlSpec == FieldSpec("IhlSpec", "u8", U8, Mask64(<<\h0F>>), 0)
DscpSpec == FieldSpec("DscpSpec", "u8", U8, Mask64(<<\hFC>>), 2)
EcnSpec == FieldSpec("EcnSpec", "u8", U8, Mask64(<<\h03>>), 0)
TotalLengthSpec == FieldSpec("TotalLengthSpec", "u16", U16, U64_MAX, 0)
IdentificationSpec == FieldSpec("IdentificationSpec", "u16", U16, U64_MAX, 0)
Ipv4FlagsSpec == FieldSpec("Ipv4FlagsSpec", "u8", U8, Mask64(<<\hE0>>), 5)
FragmentOffsetSpec == FieldSpec("FragmentOffsetSpec", "u16", U16, Mask64(<<\h1F, \hFF>>), 0)
TtlSpec == FieldSpec("TtlSpec", "u8", U8, U64_MAX, 0)
ProtocolSpec == FieldSpec("ProtocolSpec", "IpProtocol", U8, Mask64(<<\hFF>>), 0)
ChecksumSpec == FieldSpec("ChecksumSpec", "u16", U16, U64_MAX, 0)
Ipv4AddrSpec == FieldSpec("Ipv4AddrSpec", "Ipv4Addr", U32, U64_MAX, 0)
\* layer/tcp.rs and layer/udp.rs
PortSpec == FieldSpec("PortSpec", "u16", U16, U64_MAX, 0)
SeqNumSpec == FieldSpec("SeqNumSpec", "u32", U32, U64_MAX, 0)
AckNumSpec == FieldSpec("AckNumSpec", "u32", U32, U64_MAX, 0)
DataOffsetSpec == FieldSpec("DataOffsetSpec", "u8", U8, Mask64(<<\hF0>>), 4)
TcpFlagsSpec == FieldSpec("TcpFlagsSpec", "TcpFlags", U8, U64_MAX, 0)
WindowSizeSpec == FieldSpec("WindowSizeSpec", "u16", U16, U64_MAX, 0)
UrgentPointerSpec == FieldSpec("UrgentPointerSpec", "u16", U16, U64_MAX, 0)
LengthSpec == FieldSpec("LengthSpec", "u16", U16, U64_MAX, 0)
\* layer/dns.rs
QrSpec == FieldSpec("QrSpec", "bool", U8, Mask64(<<\h80>>), 7)
OpCodeSpec == FieldSpec("OpCodeSpec", "DnsOpCode", U8, Mask64(<<\h78>>), 3)
AaSpec == FieldSpec("AaSpec", "bool", U8, Mask64(<<\h04>>), 2)
TcSpec == FieldSpec("TcSpec", "bool", U8, Mask64(<<\h02>>), 1)
RdSpec == FieldSpec("RdSpec", "bool", U8, Mask64(<<\h01>>), 0)
RaSpec == FieldSpec("RaSpec", "bool", U8, Mask64(<<\h80>>), 7)
ZSpec == FieldSpec("ZSpec", "u8", U8, Mask64(<<\h70>>), 4)
RCodeSpec == FieldSpec("RCodeSpec", "DnsRCode", U8, Mask64(<<\h0F>>), 0)
IdSpec == FieldSpec("IdSpec", "u16", U16, U64_MAX, 0)
CountSpec == FieldSpec("CountSpec", "u16", U16, U64_MAX, 0)
\* layer/dns/question.rs
QtypeSpec == FieldSpec("QtypeSpec", "DnsRrType", U16, U64_MAX, 0)
QclassSpec == FieldSpec("QclassSpec", "DnsClass", U16, U64_MAX, 0)
\* layer/dns/label.rs
TypeSpec == FieldSpec("TypeSpec", "u8", U8, Mask64(<<\hC0>>), 6)
LenSpec == FieldSpec("LenSpec", "u8", U8, Mask64(<<\h3F>>), 0)
OffsetSpec == FieldSpec("OffsetSpec", "u16", U16, Mask64(<<\h3F, \hFF>>), 0)
\* utils/field.rs, tests::test_field
TestField == FieldSpec("TestField", "u16", U16, Mask64(<<\h0F, \h00>>), 8)

\* Shapes the traits support and no layer declares: 32- and 64-bit storage with
\* a mask and a shift, a narrowing `as` target, 3/5/6/7-byte arrays (the
\* target "Array" wraps the array as EthAddr wraps [u8; 6]), and a mask written
\* out over the whole storage as ProtocolSpec has it.
OtherShapes ==
    { FieldSpec("U64Plain", "u64", U64, U64_MAX, 0),
      FieldSpec("U64Masked", "u64", U64, Mask64(<<\h0F, \hFF, 0, 0, 0, 0>>), 0),
      FieldSpec("U64Shifted", "u32", U64, Mask64(<<\h0F, \hFF, \hFF, \hFF, \hF0, 0, 0>>), 20),
      FieldSpec("U32Shifted", "u16", U32, Mask64(<<\h0F, \hFF, \hF0, 0>>), 12),
      FieldSpec("U16AsU8", "u8", U16, Mask64(<<\h0F, \hF0>>), 4),
      FieldSpec("Arr3Plain", "Array", Arr(3), U64_MAX, 0),
      FieldSpec("Arr3Masked", "Array", Arr(3), Mask64(<<\h0F, \hFF>>), 0),
      FieldSpec("Arr5Shifted", "Array", Arr(5), Mask64(<<\h0F, \hFF, \hF0, 0>>), 12),
      FieldSpec("Arr6Shifted", "Array", Arr(6), Mask64(<<\h3F, \hFC, 0, 0, 0>>), 26),
      FieldSpec("Arr7Shifted", "Array", Arr(7), Mask64(<<\hFF, \hF0, 0, 0, 0, 0, 0>>), 52),
      FieldSpec("U16Full", "u16", U16, Mask64(<<\hFF, \hFF>>), 0),
      FieldSpec("Arr3Full", "Array", Arr(3), Mask64(<<\hFF, \hFF, \hFF>>), 0) }

FieldSpecs ==
    { EthAddrSpec, EthTypeSpec, VersionSpec, IhlSpec, DscpSpec, EcnSpec,
      TotalLengthSpec, Ipv4FlagsSpec, FragmentOffsetSpec, TtlSpec, ProtocolSpec,
      Ipv4AddrSpec, SeqNumSpec, DataOffsetSpec, TcpFlagsSpec, QrSpec, OpCodeSpec,
      AaSpec, TcSpec, RdSpec, RaSpec, ZSpec, RCodeSpec, TypeSpec, LenSpec,
      OffsetSpec, TestField } \cup OtherShapes

(***************************************************************************)
(* SpecField: one Field accessor over its bytes, set and read repeatedly   *)
(***************************************************************************)
NoValue == <<>>

\* at most this many sets on one accessor
MaxSets == 2

\* byte patterns for the storage before the first set
PriorFill == {0, 255, 165}
PriorMems(U) ==
    { [i \in 1..U.size |-> p] : p \in PriorFill }
        \cup { [i \in 1..U.size |-> (37 * i + 90) % 256] }

\* sample values of each logical type
TestNats == {0, 1, 5, 10, 15, 16, 255, 4095, 8191, 16384, 65535}
TestBytes(n) ==
    { [i \in 1..n |-> 0], [i \in 1..n |-> 255],
      [i \in 1..n |-> IF i = n THEN 5 ELSE 0],
      [i \in 1..n |-> IF i >= n - 1 THEN 165 ELSE 0],
      [i \in 1..n |-> (16 * i + 3) % 256] }
Values(T, U) ==
    CASE T \in {"u8", "u16"} ->
            { NatBits(n, UintBits(T)) : n \in {k \in TestNats : k < 2 ^ UintBits(T)} }
      [] T \in {"u32", "u64"} -> { BytesBits(b) : b \in TestBytes(UintBits(T) \div 8) }
      [] T = "bool" -> BOOLEAN
      [] T \in {"EthAddr", "Array"} -> { [octets |-> b] : b \in TestBytes(U.size) }
      [] T = "Ipv4Addr" -> { [octets |-> b] : b \in TestBytes(4) }
      [] T = "EthType" ->
            { EnumFromPrimitive(EthType, "Reserved", n) : n \in {\h0800, \h0806, \h86DD, 0, \hFFFF} }
      [] T = "IpProtocol" ->
            { EnumFromPrimitive(IpProtocol, "Reserved", n) : n \in {6, 17, 1, 255} }
      [] T = "TcpFlags" -> { {}, {"SYN"}, {"SYN", "ACK"}, {"CWR", "FIN"}, {f : f \in {TcpFlags[i] : i \in 1..8}} }
      [] T = "DnsOpCode" ->
            { EnumFromPrimitive(DnsOpCode, "Unassigned", n) : n \in {0, 2, 5, 3, 15, 16, 255} }
      [] T = "DnsRCode" ->
            { EnumFromPrimitive(DnsRCode, "Unassigned", n) : n \in {0, 3, 11, 12, 15, 16, 23} }

\* x fits in the field: shifting it into place loses no bit and sets no bit
\* outside the mask
Fits(F, v) ==
    LET u == IntoUnderlay(F.T, F.U, v)
        placed == Shl(F.U, u, F.shift)
    IN  /\ Shr(F.U, placed, F.shift) = u
        /\ Mask(F.U, placed, BytesBits(F.mask)) = placed

InitField ==
    /\ fspec \in FieldSpecs \cup { Lsb(F) : F \in FieldSpecs }
    /\ fmem \in PriorMems(fspec.U)
    /\ fprev = fmem
    /\ flast = NoValue
    /\ fsets = 0
    /\ fgot = NoValue

\* Field::set(value)
Set(v) ==
    /\ fsets < MaxSets
    /\ fprev' = fmem
    /\ fmem' = FieldSet(fspec, fmem, v)
    /\ flast' = <<v>>
    /\ fsets' = fsets + 1
    /\ fgot' = NoValue
    /\ UNCHANGED <<callVars, fspec, layerVars, builderVars, nameVars, dnsVars>>

\* Field::get()
Get ==
    /\ fgot = NoValue
    /\ fgot' = <<FieldGet(fspec, fmem)>>
    /\ UNCHANGED <<callVars, fspec, fmem, fprev, flast, fsets, layerVars, builderVars, nameVars, dnsVars>>


(***************************************************************************)
(* Layer views: Eth, Ipv4, Tcp, Udp                                        *)
(***************************************************************************)
ETH_MIN_HEADER_LENGTH == 14
IPV4_MIN_HEADER_LENGTH == 20
TCP_MIN_HEADER_LENGTH == 20
UDP_MIN_HEADER_LENGTH == 8

\* the FIELD_* ranges (start, end exclusive) with the spec of each accessor
EthFields ==
    [ dst |-> [range |-> <<0, 6>>, spec |-> EthAddrSpec],
      src |-> [range |-> <<6, 12>>, spec |-> EthAddrSpec],
      eth_type |-> [range |-> <<12, 14>>, spec |-> EthTypeSpec] ]
Ipv4Fields ==
    [ version |-> [range |-> <<0, 1>>, spec |-> VersionSpec],
      ihl |-> [range |-> <<0, 1>>, spec |-> IhlSpec],
      dscp |-> [range |-> <<1, 2>>, spec |-> DscpSpec],
      ecn |-> [range |-> <<1, 2>>, spec |-> EcnSpec],
      total_length |-> [range |-> <<2, 4>>, spec |-> TotalLengthSpec],
      identification |-> [range |-> <<4, 6>>, spec |-> IdentificationSpec],
      flags |-> [range |-> <<6, 7>>, spec |-> Ipv4FlagsSpec],
      fragment_offset |-> [range |-> <<6, 8>>, spec |-> FragmentOffsetSpec],
      ttl |-> [range |-> <<8, 9>>, spec |-> TtlSpec],
      protocol |-> [range |-> <<9, 10>>, spec |-> ProtocolSpec],
      checksum |-> [range |-> <<10, 12>>, spec |-> ChecksumSpec],
      src |-> [range |-> <<12, 16>>, spec |-> Ipv4AddrSpec],
      dst |-> [range |-> <<16, 20>>, spec |-> Ipv4AddrSpec] ]
TcpFields ==
    [ src_port |-> [range |-> <<0, 2>>, spec |-> PortSpec],
      dst_port |-> [range |-> <<2, 4>>, spec |-> PortSpec],
      seq_num |-> [range |-> <<4, 8>>, spec |-> SeqNumSpec],
      ack_num |-> [range |-> <<8, 12>>, spec |-> AckNumSpec],
      data_offset |-> [range |-> <<12, 13>>, spec |-> DataOffsetSpec],
      flags |-> [range |-> <<13, 14>>, spec |-> TcpFlagsSpec],
      window_size |-> [range |-> <<14, 16>>, spec |-> WindowSizeSpec],
      checksum |-> [range |-> <<16, 18>>, spec |-> ChecksumSpec],
      urgent_pointer |-> [range |-> <<18, 20>>, spec |-> UrgentPointerSpec] ]
UdpFields ==
    [ src_port |-> [range |-> <<0, 2>>, spec |-> PortSpec],
      dst_port |-> [range |-> <<2, 4>>, spec |-> PortSpec],
      length |-> [range |-> <<4, 6>>, spec |-> LengthSpec],
      checksum |-> [range |-> <<6, 8>>, spec |-> ChecksumSpec] ]

\* data[a..b] and data[a..]: the slice, and whether taking it panics
SliceFaults(data, a, b) == a > b \/ b > Len(data)
Slice(data, a, b) == SubSeq(data, a + 1, b)
SliceFrom(data, a) == SubSeq(data, a + 1, Len(data))

\* an accessor: the slice data[FIELD_X] is bounds-checked, then its start is
\* reinterpreted as a Field over size_of::<U>() bytes
AccessFaults(data, f) == SliceFaults(data, f.range[1], f.range[2])
FieldMem(data, f) == SubSeq(data, f.range[1] + 1, f.range[1] + f.spec.U.size)
Read(data, f) == FieldGet(f.spec, FieldMem(data, f))
\* a set through storage one byte longer than the declared range
WriteOverNext(data, f, v) ==
    LET end == f.range[1] + f.spec.U.size
    IN  SubSeq(data, 1, f.range[1]) \o FieldSet(f.spec, FieldMem(data, f), v)
            \o (IF end < Len(data) THEN <<0>> ELSE <<>>)
            \o SubSeq(data, end + 2, Len(data))
Write(data, f, v) ==
    SubSeq(data, 1, f.range[1]) \o FieldSet(f.spec, FieldMem(data, f), v)
        \o SubSeq(data, f.range[1] + f.spec.U.size + 1, Len(data))

\* validate(): Ok, or Err(InvalidLength(len))
Ok == [ok |-> TRUE, err |-> "None", len |-> 0]
InvalidLength(n) == [ok |-> FALSE, err |-> "InvalidLength", len |-> n]
EthValidate(data) ==
    IF Len(data) < ETH_MIN_HEADER_LENGTH THEN InvalidLength(Len(data)) ELSE Ok
Ipv4Validate(data) ==
    IF Len(data) < IPV4_MIN_HEADER_LENGTH THEN InvalidLength(Len(data)) ELSE Ok
\* a length check that also refuses a buffer of exactly the header's length
TcpValidateOffByOne(data) ==
    IF Len(data) <= TCP_MIN_HEADER_LENGTH THEN InvalidLength(Len(data)) ELSE Ok
TcpValidate(data) ==
    IF Len(data) < TCP_MIN_HEADER_LENGTH THEN InvalidLength(Len(data)) ELSE Ok
UdpValidate(data) ==
    IF Len(data) < UDP_MIN_HEADER_LENGTH THEN InvalidLength(Len(data)) ELSE Ok
Validate(layer, data) ==
    CASE layer = "Eth" -> EthValidate(data)
      [] layer = "Ipv4" -> Ipv4Validate(data)
      [] layer = "Tcp" -> TcpValidate(data)
      [] layer = "Udp" -> UdpValidate(data)

\* a slice result: [fault, bytes, start]; start is the slice's offset in data
Sliced(data, a, b) ==
    IF SliceFaults(data, a, b) THEN [fault |-> TRUE, bytes |-> <<>>, start |-> 0]
    ELSE [fault |-> FALSE, bytes |-> Slice(data, a, b), start |-> a]

U8Wrap(n) == n % 256

\* Ipv4::ihl().get() and Tcp::data_offset().get() as numbers
Ipv4Ihl(data) == BitsNat(Read(data, Ipv4Fields.ihl))
TcpDataOffset(data) == BitsNat(Read(data, TcpFields.data_offset))

\* Ipv4::options: &data[MIN_HEADER_LENGTH..(ihl - 5) as usize * 4].  The
\* subtraction is on u8: below 5 it panics with overflow checks and wraps
\* without them, and the wrapped end (at least 1004) is past every buffer here.
Ipv4Options(data) ==
    Sliced(data, IPV4_MIN_HEADER_LENGTH, U8Wrap(Ipv4Ihl(data) - 5) * 4)
\* Ipv4::options_mut: MIN_HEADER_LENGTH..ihl * 4
Ipv4OptionsMut(data) == Sliced(data, IPV4_MIN_HEADER_LENGTH, Ipv4Ihl(data) * 4)
\* Ipv4::payload / payload_mut: &data[ihl * 4..]
Ipv4Payload(data) == Sliced(data, Ipv4Ihl(data) * 4, Len(data))
\* Tcp::options / options_mut, Tcp::payload / payload_mut
TcpOptions(data) == Sliced(data, TCP_MIN_HEADER_LENGTH, TcpDataOffset(data) * 4)
TcpPayload(data) == Sliced(data, TcpDataOffset(data) * 4, Len(data))
\* Eth::payload (FIELD_PAYLOAD = 14..) and Udp::payload (FIELD_PAYLOAD = 8..)
\* a payload taken from the type field on
EthPayloadAt12(data) == Sliced(data, 12, Len(data))
EthPayload(data) == Sliced(data, 14, Len(data))
UdpPayload(data) == Sliced(data, 8, Len(data))

OptionsOf(layer, data) ==
    CASE layer = "Ipv4" -> Ipv4Options(data)
      [] layer = "Tcp" -> TcpOptions(data)
PayloadOf(layer, data) ==
    CASE layer = "Eth" -> EthPayload(data)
      [] layer = "Ipv4" -> Ipv4Payload(data)
      [] layer = "Tcp" -> TcpPayload(data)
      [] layer = "Udp" -> UdpPayload(data)

\* next-layer resolution: [fault, some, data, start]
Inner(layer, matches, payload) ==
    IF ~matches THEN [fault |-> FALSE, some |-> FALSE, data |-> <<>>, start |-> 0]
    ELSE IF payload.fault THEN [fault |-> TRUE, some |-> FALSE, data |-> <<>>, start |-> 0]
    ELSE [fault |-> FALSE, some |-> Validate(layer, payload.bytes).ok,
          data |-> payload.bytes, start |-> payload.start]
\* Eth::ipv4
EthIpv4Of(data) ==
    Inner("Ipv4", Read(data, EthFields.eth_type) = [name |-> "Ipv4", raw |-> 0],
          EthPayload(data))
\* Ipv4::tcp, Ipv4::udp
Ipv4TcpOf(data) ==
    Inner("Tcp", Read(data, Ipv4Fields.protocol) = [name |-> "Tcp", raw |-> 0],
          Ipv4Payload(data))
Ipv4UdpOf(data) ==
    Inner("Udp", Read(data, Ipv4Fields.protocol) = [name |-> "Udp", raw |-> 0],
          Ipv4Payload(data))

(***************************************************************************)
(* SpecLayer: a view is constructed over a caller's buffer and queried     *)
(***************************************************************************)
\* buffers are at most this long
MaxLen == 56

\* header-length nibbles, protocol numbers and Eth types placed in the buffers
HeaderLens == {0, 4, 5, 6, 7, 15}
Protocols == {6, 17, 1}
EtherTypes == {<<8, 0>>, <<8, 6>>}

\* filler with pairwise different neighbouring bytes, so that a slice is
\* recognised by its content
Fill == [i \in 1..(MaxLen + 1) |-> (29 * i + 7) % 256]
\* b with `bytes` written at offset pos
Overlay(b, pos, bytes) ==
    SubSeq(b, 1, pos) \o bytes \o SubSeq(b, pos + Len(bytes) + 1, Len(b))
Prefix(b, n) == SubSeq(b, 1, n)
Lengths == 0..MaxLen

UdpBuffers == { Prefix(Fill, n) : n \in Lengths }
TcpBuffers == { Prefix(Overlay(Fill, 12, <<16 * h + 5>>), n) : n \in Lengths, h \in HeaderLens }
Ipv4Packet(h, p) == Overlay(Overlay(Fill, 0, <<64 + h>>), 9, <<p>>)
Ipv4Buffers == { Prefix(Ipv4Packet(h, p), n) : n \in Lengths, h \in HeaderLens, p \in Protocols }
EthBuffers ==
    { Prefix(SubSeq(Fill, 1, 12) \o t \o Ipv4Packet(h, p), n) :
        n \in Lengths, t \in EtherTypes, h \in HeaderLens, p \in Protocols }
Buffers(layer) ==
    CASE layer = "Eth" -> EthBuffers
      [] layer = "Ipv4" -> Ipv4Buffers
      [] layer = "Tcp" -> TcpBuffers
      [] layer = "Udp" -> UdpBuffers

NoView == [layer |-> "None"]
NoOut == [op |-> "None"]

InitLayer == buf = <<>> /\ view = NoView /\ out = NoOut

\* Eth::new, Ipv4::new, Tcp::new, Udp::new: new_unchecked, then validate
New(layer) ==
    /\ view = NoView /\ out = NoOut
    /\ \E b \in Buffers(layer) :
        /\ buf' = b
        /\ out' = [op |-> "new", layer |-> layer, res |-> Validate(layer, b)]
        /\ view' = IF Validate(layer, b).ok
                   THEN [layer |-> layer, data |-> b, off |-> 0, via |-> <<"new">>]
                   ELSE NoView
    /\ UNCHANGED <<callVars, fieldVars, builderVars, nameVars, dnsVars>>
EthNew == New("Eth")
Ipv4New == New("Ipv4")
TcpNew == New("Tcp")
UdpNew == New("Udp")

\* options() on an Ipv4 or Tcp view
CallOptions ==
    /\ view.layer \in {"Ipv4", "Tcp"}
    /\ out' = [op |-> "options", res |-> OptionsOf(view.layer, view.data)]
    /\ UNCHANGED <<callVars, buf, view, fieldVars, builderVars, nameVars, dnsVars>>

\* payload() on any view
CallPayload ==
    /\ view.layer \in {"Eth", "Ipv4", "Tcp", "Udp"}
    /\ out' = [op |-> "payload", res |-> PayloadOf(view.layer, view.data)]
    /\ UNCHANGED <<callVars, buf, view, fieldVars, builderVars, nameVars, dnsVars>>

\* a next-layer accessor: the caller keeps the inner view when it gets Some
Resolve(op, parent, layer, r) ==
    /\ out' = [op |-> op, res |-> r, parent |-> parent]
    /\ view' = IF r.some
               THEN [layer |-> layer, data |-> r.data, off |-> parent.off + r.start,
                     via |-> Append(parent.via, op)]
               ELSE parent
    /\ UNCHANGED <<callVars, buf, fieldVars, builderVars, nameVars, dnsVars>>
\* Eth::ipv4()
CallIpv4 == view.layer = "Eth" /\ Resolve("ipv4", view, "Ipv4", EthIpv4Of(view.data))
\* Ipv4::tcp()
CallTcp == view.layer = "Ipv4" /\ Resolve("tcp", view, "Tcp", Ipv4TcpOf(view.data))
\* Ipv4::udp()
CallUdp == view.layer = "Ipv4" /\ Resolve("udp", view, "Udp", Ipv4UdpOf(view.data))

NextLayer ==
    \/ EthNew \/ Ipv4New \/ TcpNew \/ UdpNew
    \/ CallOptions \/ CallPayload
    \/ CallIpv4 \/ CallTcp \/ CallUdp

(***************************************************************************)
(* Layer builders: EthBuilder, Ipv4Builder, TcpBuilder, UdpBuilder         *)
(***************************************************************************)
None == <<>>
Some(v) == <<v>>
UnwrapOr(opt, d) == IF opt = None THEN d ELSE opt[1]
U16Wrap(n) == n % 65536
\* a + b on u16: a panic with overflow checks, wrapped without them
U16AddFaults(a, b, checks) == checks /\ a + b > 65535

\* the Option fields of each builder, all None after new()
BuilderFields(kind) ==
    CASE kind = "Eth" -> {"src", "dst", "eth_type"}
      [] kind = "Ipv4" -> {"ihl", "dscp", "ecn", "total_length", "identification", "flags",
                           "fragment_offset", "ttl", "protocol", "checksum", "src", "dst"}
      [] kind = "Tcp" -> {"src_port", "dst_port", "seq_num", "ack_num", "data_offset",
                          "flags", "window_size", "checksum", "urgent_pointer"}
      [] kind = "Udp" -> {"src_port", "dst_port", "length", "checksum"}
LayerFields(kind) ==
    CASE kind = "Eth" -> EthFields [] kind = "Ipv4" -> Ipv4Fields
      [] kind = "Tcp" -> TcpFields [] kind = "Udp" -> UdpFields
BuilderNew(kind) ==
    [kind |-> kind, f |-> [n \in BuilderFields(kind) |-> None],
     options |-> <<>>, payload |-> <<>>]

\* the buffer under construction: a panic anywhere makes the build fault
RECURSIVE ZeroBytes(_)
ZeroBytes(n) ==
    IF n = 0 THEN <<>>
    ELSE IF n % 2 = 1 THEN <<0>> \o ZeroBytes(n - 1)
    ELSE LET half == ZeroBytes(n \div 2) IN half \o half
\* vec![0; n]
Started(n) == [fault |-> FALSE, data |-> ZeroBytes(n)]
Faulted == [fault |-> TRUE, data |-> <<>>]
\* x_mut().set(v)
Put(st, f, v) ==
    IF st.fault \/ AccessFaults(st.data, f) THEN Faulted
    ELSE [fault |-> FALSE, data |-> Write(st.data, f, v)]
RECURSIVE PutAll(_, _)
PutAll(st, writes) ==
    IF writes = <<>> THEN st
    ELSE PutAll(Put(st, writes[1][1], writes[1][2]), Tail(writes))
\* slice.copy_from_slice(src): panics unless the lengths are equal
CopyFromSlice(st, slice, src) ==
    IF st.fault \/ slice.fault \/ Len(slice.bytes) # Len(src) THEN Faulted
    ELSE [fault |-> FALSE, data |-> Overlay(st.data, slice.start, src)]
\* the mutable slices are taken from the buffer as it is when they are taken
OptionsMut(kind, st) ==
    IF st.fault \/ AccessFaults(st.data, IF kind = "Ipv4" THEN Ipv4Fields.ihl ELSE TcpFields.data_offset)
    THEN [fault |-> TRUE, bytes |-> <<>>, start |-> 0]
    ELSE IF kind = "Ipv4" THEN Ipv4OptionsMut(st.data) ELSE TcpOptions(st.data)
PayloadMut(kind, st) ==
    IF st.fault THEN [fault |-> TRUE, bytes |-> <<>>, start |-> 0]
    ELSE IF kind \in {"Ipv4", "Tcp"}
              /\ AccessFaults(st.data, IF kind = "Ipv4" THEN Ipv4Fields.ihl ELSE TcpFields.data_offset)
         THEN [fault |-> TRUE, bytes |-> <<>>, start |-> 0]
         ELSE PayloadOf(kind, st.data)

Unspecified == [octets |-> <<0, 0, 0, 0>>]
ZeroAddr == [octets |-> <<0, 0, 0, 0, 0, 0>>]
NoFlags == {}

\* EthBuilder::build
EthBuild(b) ==
    LET len == ETH_MIN_HEADER_LENGTH + Len(b.payload)
        eth == PutAll(Started(len),
                  << <<EthFields.src, UnwrapOr(b.f.src, ZeroAddr)>>,
                     <<EthFields.dst, UnwrapOr(b.f.dst, ZeroAddr)>>,
                     <<EthFields.eth_type, UnwrapOr(b.f.eth_type, EthTypeDefault)>> >>)
    IN  CopyFromSlice(eth, PayloadMut("Eth", eth), b.payload)

\* Ipv4Builder::build
Ipv4Build(b, checks) ==
    LET ihl == UnwrapOr(b.f.ihl, NatBits(U8Wrap(Len(b.options)) \div 4 + 5, 8))
        length == UnwrapOr(b.f.total_length,
                           NatBits(U16Wrap(BitsNat(ihl) * 4 + U16Wrap(Len(b.payload))), 16))
        overflow == b.f.total_length = None
                       /\ U16AddFaults(BitsNat(ihl) * 4, U16Wrap(Len(b.payload)), checks)
        ipv4 == PutAll(Started(BitsNat(length)),
                  << <<Ipv4Fields.version, NatBits(4, 8)>>,
                     <<Ipv4Fields.ihl, ihl>>,
                     <<Ipv4Fields.dscp, UnwrapOr(b.f.dscp, NatBits(0, 8))>>,
                     <<Ipv4Fields.ecn, UnwrapOr(b.f.ecn, NatBits(0, 8))>>,
                     <<Ipv4Fields.total_length, length>>,
                     <<Ipv4Fields.identification, UnwrapOr(b.f.identification, NatBits(0, 16))>>,
                     <<Ipv4Fields.flags, UnwrapOr(b.f.flags, NatBits(0, 8))>>,
                     <<Ipv4Fields.fragment_offset, UnwrapOr(b.f.fragment_offset, NatBits(0, 16))>>,
                     <<Ipv4Fields.ttl, UnwrapOr(b.f.ttl, NatBits(64, 8))>>,
                     <<Ipv4Fields.protocol, UnwrapOr(b.f.protocol, [name |-> "Reserved", raw |-> 255])>>,
                     <<Ipv4Fields.checksum, UnwrapOr(b.f.checksum, NatBits(0, 16))>>,
                     <<Ipv4Fields.src, UnwrapOr(b.f.src, Unspecified)>>,
                     <<Ipv4Fields.dst, UnwrapOr(b.f.dst, Unspecified)>> >>)
        withOptions == CopyFromSlice(ipv4, OptionsMut("Ipv4", ipv4), b.options)
    IN  IF overflow THEN Faulted
        ELSE CopyFromSlice(withOptions, PayloadMut("Ipv4", withOptions), b.payload)

\* TcpBuilder::build
TcpBuild(b) ==
    LET data_offset == UnwrapOr(b.f.data_offset, NatBits(U8Wrap(Len(b.options)) \div 4 + 5, 8))
        tcp == PutAll(Started(BitsNat(data_offset) * 4 + Len(b.payload)),
                  << <<TcpFields.src_port, UnwrapOr(b.f.src_port, NatBits(0, 16))>>,
                     <<TcpFields.dst_port, UnwrapOr(b.f.dst_port, NatBits(0, 16))>>,
                     <<TcpFields.seq_num, UnwrapOr(b.f.seq_num, NatBits(0, 32))>>,
                     <<TcpFields.ack_num, UnwrapOr(b.f.ack_num, NatBits(0, 32))>>,
                     <<TcpFields.data_offset, data_offset>>,
                     <<TcpFields.flags, UnwrapOr(b.f.flags, NoFlags)>>,
                     <<TcpFields.window_size, UnwrapOr(b.f.window_size, NatBits(64, 16))>>,
                     <<TcpFields.checksum, UnwrapOr(b.f.checksum, NatBits(0, 16))>>,
                     <<TcpFields.urgent_pointer, UnwrapOr(b.f.urgent_pointer, NatBits(0, 16))>> >>)
        withOptions == CopyFromSlice(tcp, OptionsMut("Tcp", tcp), b.options)
    IN  CopyFromSlice(withOptions, PayloadMut("Tcp", withOptions), b.payload)

\* UdpBuilder::build
UdpBuild(b, checks) ==
    LET len == UnwrapOr(b.f.length,
                        NatBits(U16Wrap(UDP_MIN_HEADER_LENGTH + U16Wrap(Len(b.payload))), 16))
        overflow == b.f.length = None
                       /\ U16AddFaults(UDP_MIN_HEADER_LENGTH, U16Wrap(Len(b.payload)), checks)
        udp == PutAll(Started(BitsNat(len)),
                  << <<UdpFields.src_port, UnwrapOr(b.f.src_port, NatBits(0, 16))>>,
                     <<UdpFields.dst_port, UnwrapOr(b.f.dst_port, NatBits(0, 16))>>,
                     <<UdpFields.length, len>>,
                     <<UdpFields.checksum, UnwrapOr(b.f.checksum, NatBits(0, 16))>> >>)
    IN  IF overflow THEN Faulted
        ELSE CopyFromSlice(udp, PayloadMut("Udp", udp), b.payload)

\* checks: whether the build has integer overflow checks (debug) or not (release)
BuildOf(b, checks) ==
    CASE b.kind = "Eth" -> EthBuild(b)
      [] b.kind = "Ipv4" -> Ipv4Build(b, checks)
      [] b.kind = "Tcp" -> TcpBuild(b)
      [] b.kind = "Udp" -> UdpBuild(b, checks)

(***************************************************************************)
(* SpecBuilder: a builder is filled through its setters and then built     *)
(***************************************************************************)
\* at most this many setter calls are made on one builder
MaxCalls == 2

Kinds == {"Eth", "Ipv4", "Tcp", "Udp"}
\* header lengths and total lengths a caller passes explicitly
ExplicitHeaderLens == {5, 6, 21}
ExplicitLengths == {0, 9, 21, 24}
\* the values a caller passes to the setter of field n
BuilderValues(kind, n) ==
    LET T == LayerFields(kind)[n].spec.T
    IN  CASE n \in {"ihl", "data_offset"} -> { NatBits(h, 8) : h \in ExplicitHeaderLens }
          [] n \in {"total_length", "length"} -> { NatBits(l, 16) : l \in ExplicitLengths }
          [] OTHER ->
                CASE T = "u8" -> { NatBits(1, 8), NatBits(255, 8) }
                  [] T = "u16" -> { NatBits(80, 16), NatBits(65535, 16) }
                  [] T = "u32" -> { BytesBits(<<1, 2, 3, 4>>), BytesBits(<<255, 255, 255, 255>>) }
                  [] T = "EthAddr" -> { [octets |-> <<2, 0, 0, 0, 0, 1>>] }
                  [] T = "Ipv4Addr" -> { [octets |-> <<192, 168, 0, 1>>] }
                  [] T = "EthType" -> { [name |-> "Ipv4", raw |-> 0], [name |-> "Reserved", raw |-> \h1234] }
                  [] T = "IpProtocol" -> { [name |-> "Tcp", raw |-> 0], [name |-> "Udp", raw |-> 0],
                                           [name |-> "Reserved", raw |-> 1] }
                  [] T = "TcpFlags" -> { {"SYN", "ACK"} }

\* the slices a caller appends as options: 1 byte and 4 bytes
OptionChunks == { <<161>>, <<162, 163, 164, 165>> }
\* the slices a caller appends as payload: a short one, and for the builders that
\* compute a 16-bit length the longest payload that length can hold
\* (65535 - 20 and 65535 - 8 bytes)
ShortPayload == <<81>>
Ipv4LongPayload == [i \in 1..65515 |-> 1 + (i % 255)]
UdpLongPayload == [i \in 1..65527 |-> 1 + (i % 255)]
PayloadChunks(kind) ==
    CASE kind = "Ipv4" -> {ShortPayload, Ipv4LongPayload}
      [] kind = "Udp" -> {ShortPayload, UdpLongPayload}
      [] OTHER -> {ShortPayload, <<82, 83>>}

NotBuilt == [state |-> "NotBuilt"]
FieldsSet(b) == { n \in DOMAIN b.f : b.f[n] # None }

InitBuilder ==
    /\ builder \in { BuilderNew(k) : k \in Kinds }
    /\ calls = 0
    /\ built = NotBuilt

\* a field setter: self.f = Some(v.into())
SetField(n, v) ==
    /\ built = NotBuilt /\ calls < MaxCalls
    /\ builder' = [builder EXCEPT !.f[n] = Some(v)]
    /\ calls' = calls + 1
    /\ UNCHANGED <<callVars, built, fieldVars, layerVars, nameVars, dnsVars>>

\* Ipv4Builder::options, TcpBuilder::options: extend_from_slice
AddOptions(chunk) ==
    /\ built = NotBuilt /\ calls < MaxCalls
    /\ builder.kind \in {"Ipv4", "Tcp"}
    /\ builder' = [builder EXCEPT !.options = @ \o chunk]
    /\ calls' = calls + 1
    /\ UNCHANGED <<callVars, built, fieldVars, layerVars, nameVars, dnsVars>>

\* the payload setter of every builder: extend_from_slice
AddPayload(chunk) ==
    /\ built = NotBuilt /\ calls < MaxCalls
    /\ builder' = [builder EXCEPT !.payload = @ \o chunk]
    /\ calls' = calls + 1
    /\ UNCHANGED <<callVars, built, fieldVars, layerVars, nameVars, dnsVars>>

\* build(): the view over the new buffer, or a panic
Build ==
    /\ built = NotBuilt
    /\ \E checks \in BOOLEAN :
          built' = [state |-> "Built", kind |-> builder.kind,
                    fault |-> BuildOf(builder, checks).fault,
                    data |-> BuildOf(builder, checks).data]
    /\ UNCHANGED <<callVars, builder, calls, fieldVars, layerVars, nameVars, dnsVars>>

NextBuilder ==
    \/ \E n \in BuilderFields(builder.kind) : \E v \in BuilderValues(builder.kind, n) : SetField(n, v)
    \/ \E chunk \in OptionChunks : AddOptions(chunk)
    \/ \E chunk \in PayloadChunks(builder.kind) : AddPayload(chunk)
    \/ Build

(***************************************************************************)
(* DNS labels and names (layer/dns/label.rs, layer/dns/name.rs)            *)
(*                                                                         *)
(* A string is the sequence of its bytes.  A call either panics or         *)
(* returns: Panic, or Ret(v) with v the returned value (an Option is None  *)
(* or Some(v)).                                                            *)
(***************************************************************************)
Panic == [fault |-> TRUE, val |-> None]
Ret(v) == [fault |-> FALSE, val |-> v]

\* DnsLabel::type_: the accessor over data[0..1]
LabelType(l) ==
    IF SliceFaults(l, 0, 1) THEN Panic
    ELSE Ret(FieldGet(TypeSpec, Slice(l, 0, 1)))
\* DnsLabel::is_normal
LabelIsNormal(l) ==
    IF LabelType(l).fault THEN Panic ELSE Ret(BitsNat(LabelType(l).val) = 0)
\* is_compressed comparing the type with 0x02
LabelIsCompressedAsTwo(l) ==
    IF LabelType(l).fault THEN Panic ELSE Ret(BitsNat(LabelType(l).val) = 2)
\* DnsLabel::is_compressed
LabelIsCompressed(l) ==
    IF LabelType(l).fault THEN Panic ELSE Ret(BitsNat(LabelType(l).val) = 3)
\* DnsLabel::len, read through its accessor
LabelLen(l) ==
    IF LabelIsNormal(l).fault THEN Panic
    ELSE IF LabelIsNormal(l).val THEN Ret(Some(BitsNat(FieldGet(LenSpec, Slice(l, 0, 1)))))
    ELSE Ret(None)
\* DnsLabel::offset, read through its accessor
LabelOffset(l) ==
    IF LabelIsCompressed(l).fault THEN Panic
    ELSE IF LabelIsCompressed(l).val
         THEN IF SliceFaults(l, 0, 2) THEN Panic
              ELSE Ret(Some(BitsNat(FieldGet(OffsetSpec, Slice(l, 0, 2)))))
    ELSE Ret(None)
\* DnsLabel::label (and as_str, the same bytes taken as a str)
LabelBytes(l) ==
    IF LabelIsNormal(l).fault THEN Panic
    ELSE IF LabelIsNormal(l).val
         THEN IF SliceFaults(l, 1, 1 + l[1]) THEN Panic
              ELSE Ret(Some(Slice(l, 1, 1 + l[1])))
    ELSE Ret(None)

\* str::split('.')
RECURSIVE SplitDot(_)
SplitDot(s) ==
    IF \A i \in DOMAIN s : s[i] # 46 THEN <<s>>
    ELSE LET dot == CHOOSE i \in DOMAIN s : s[i] = 46 /\ \A j \in 1..(i - 1) : s[j] # 46
         IN  <<SubSeq(s, 1, dot - 1)>> \o SplitDot(SubSeq(s, dot + 1, Len(s)))
\* the loop of From<&str>: push(label.len() as u8), extend_from_slice(label)
RECURSIVE PushLabels(_)
PushLabels(parts) ==
    IF parts = <<>> THEN <<>>
    ELSE <<U8Wrap(Len(Head(parts)))>> \o Head(parts) \o PushLabels(Tail(parts))
\* From<&str> without the final push(0)
DnsNameFromNoRoot(s) == PushLabels(SplitDot(s))
\* impl From<&str> for DnsName<Vec<u8>>
DnsNameFrom(s) == PushLabels(SplitDot(s)) \o <<0>>

\* a next() that yields the label and leaves the offset where it was
LabelIterNextStaysPut(data, offset) ==
    IF offset >= Len(data)
    THEN [fault |-> FALSE, some |-> FALSE, label |-> <<>>, offset |-> offset]
    ELSE LET len == data[offset + 1]
         IN  IF SliceFaults(data, offset, offset + len + 1)
             THEN [fault |-> TRUE, some |-> FALSE, label |-> <<>>, offset |-> offset]
             ELSE [fault |-> FALSE, some |-> TRUE,
                   label |-> Slice(data, offset, offset + len + 1),
                   offset |-> offset]
\* DnsNameLabelIter::next at `offset`: None, Some(label), or the panic of the
\* slice data[offset..offset + len + 1]
LabelIterNext(data, offset) ==
    IF offset >= Len(data)
    THEN [fault |-> FALSE, some |-> FALSE, label |-> <<>>, offset |-> offset]
    ELSE LET len == data[offset + 1]
         IN  IF SliceFaults(data, offset, offset + len + 1)
             THEN [fault |-> TRUE, some |-> FALSE, label |-> <<>>, offset |-> offset]
             ELSE [fault |-> FALSE, some |-> TRUE,
                   label |-> Slice(data, offset, offset + len + 1),
                   offset |-> offset + len + 1]
\* `for label in self.labels()`: every label the iterator yields from `offset`
RECURSIVE LabelsFrom(_, _)
LabelsFrom(data, offset) ==
    LET r == LabelIterNext(data, offset)
    IN  IF r.fault THEN Panic
        ELSE IF ~r.some THEN Ret(<<>>)
        ELSE LET rest == LabelsFrom(data, r.offset)
             IN  IF rest.fault THEN Panic ELSE Ret(<<r.label>> \o rest.val)

\* core::fmt::Display for u16: decimal digits
RECURSIVE Decimal(_)
Decimal(n) == IF n < 10 THEN <<48 + n>> ELSE Decimal(n \div 10) \o <<48 + (n % 10)>>
\* the body of the loop of Display::fmt: what one label writes
WriteLabel(l) ==
    IF LabelIsNormal(l).fault THEN Panic
    ELSE IF LabelIsNormal(l).val
         THEN IF LabelLen(l).val[1] > 0
              THEN IF LabelBytes(l).fault THEN Panic
                   ELSE Ret(LabelBytes(l).val[1] \o <<46>>)
              ELSE Ret(<<>>)
    \* label.offset().unwrap()
    ELSE IF LabelOffset(l).fault \/ LabelOffset(l).val = None THEN Panic
    ELSE Ret(<<80, 84, 82, 40>> \o Decimal(LabelOffset(l).val[1]) \o <<41>>)
RECURSIVE WriteLabels(_)
WriteLabels(labels) ==
    IF labels = <<>> THEN Ret(<<>>)
    ELSE LET rest == WriteLabels(Tail(labels))
         IN  IF WriteLabel(Head(labels)).fault \/ rest.fault THEN Panic
             ELSE Ret(WriteLabel(Head(labels)).val \o rest.val)
\* impl Display for DnsName (to_string)
DnsNameDisplay(data) ==
    IF LabelsFrom(data, 0).fault THEN Panic ELSE WriteLabels(LabelsFrom(data, 0).val)

(***************************************************************************)
(* SpecName: a name is made, iterated label by label and formatted, and a  *)
(* label is inspected                                                      *)
(***************************************************************************)
\* n bytes of label content
Letters(n) == [i \in 1..n |-> 97 + (i % 26)]
\* "www.example.com", "www.google.com", "a", "a.bc", a 63-byte label under
\* "x", and strings with an empty or a 64-byte segment
WwwExampleCom == <<119, 119, 119, 46, 101, 120, 97, 109, 112, 108, 101, 46, 99, 111, 109>>
WwwGoogleCom == <<119, 119, 119, 46, 103, 111, 111, 103, 108, 101, 46, 99, 111, 109>>
NameStrings ==
    { WwwExampleCom, WwwGoogleCom, <<97>>, <<97, 46, 98, 99>>,
      Letters(63) \o <<46, 120>>,
      <<>>, <<97, 46>>, <<97, 46, 46, 98>>, Letters(64) }
\* name buffers given to new_unchecked: a name with bytes after its root label,
\* names ending in a compression pointer, a pointer with 191 bytes behind it,
\* a label of type 01, a label longer than the buffer
NameBuffers ==
    { <<1, 97, 0, 1, 98, 0>>, <<0, 0>>, <<3, 119, 119, 119, 0>>,
      <<3, 119, 119, 119, 192, 12>>, <<192, 12>>, <<1, 97, 255, 255>>,
      <<1, 97, 192, 12>> \o Letters(191),
      <<64>> \o Letters(64), <<5, 97>> }
\* label buffers given to DnsLabel::new_unchecked
LabelBuffers ==
    { <<7, 101, 120, 97, 109, 112, 108, 101>>, <<0>>, <<63>> \o Letters(63),
      <<192, 12>>, <<255, 255>>, <<193, 2, 3>>, <<64, 1>>, <<128>>, <<191, 7>>,
      <<192>>, <<3, 119>> }

NoName == [src |-> "None"]
NoIter == [state |-> "None"]
\* at most this many None results are taken from one iterator
MaxNones == 2
NotShown == [state |-> "NotShown"]
NoLabel == [state |-> "None"]

InitName ==
    /\ dname = NoName /\ liter = NoIter /\ shown = NotShown /\ label = NoLabel

\* DnsName::from(s)
NameFrom(s) ==
    /\ dname = NoName
    /\ dname' = [src |-> "from", str |-> s, data |-> DnsNameFrom(s)]
    /\ UNCHANGED <<callVars, liter, shown, label, fieldVars, layerVars, builderVars, dnsVars>>

\* DnsName::new_unchecked(data)
NameNewUnchecked(data) ==
    /\ dname = NoName
    /\ dname' = [src |-> "new_unchecked", str |-> <<>>, data |-> data]
    /\ UNCHANGED <<callVars, liter, shown, label, fieldVars, layerVars, builderVars, dnsVars>>

\* DnsName::labels: DnsNameLabelIter::from
Labels ==
    /\ dname # NoName /\ liter = NoIter
    /\ liter' = [state |-> "Running", offset |-> 0, yielded |-> <<>>, nones |-> 0]
    /\ UNCHANGED <<callVars, dname, shown, label, fieldVars, layerVars, builderVars, dnsVars>>

\* DnsNameLabelIter::next, called again after a None up to MaxNones times:
\* state is what the last call returned (Running after Some, Done after None)
LabelNext ==
    /\ liter.state = "Running" \/ (liter.state = "Done" /\ liter.nones < MaxNones)
    /\ LET r == LabelIterNext(dname.data, liter.offset)
       IN  liter' = IF r.fault THEN [liter EXCEPT !.state = "Fault"]
                    ELSE IF ~r.some THEN [liter EXCEPT !.state = "Done", !.nones = @ + 1]
                    ELSE [liter EXCEPT !.state = "Running", !.offset = r.offset,
                                       !.yielded = Append(@, r.label)]
    /\ UNCHANGED <<callVars, dname, shown, label, fieldVars, layerVars, builderVars, dnsVars>>

\* name.to_string()
Display ==
    /\ dname # NoName /\ shown = NotShown
    /\ shown' = [state |-> "Shown", fault |-> DnsNameDisplay(dname.data).fault,
                 text |-> DnsNameDisplay(dname.data).val]
    /\ UNCHANGED <<callVars, dname, liter, label, fieldVars, layerVars, builderVars, dnsVars>>

\* DnsLabel::new_unchecked(l) and each of its accessors
Inspect(l) ==
    /\ label = NoLabel
    /\ label' = [state |-> "Inspected", data |-> l,
                 is_normal |-> LabelIsNormal(l), is_compressed |-> LabelIsCompressed(l),
                 len |-> LabelLen(l), offset |-> LabelOffset(l), label |-> LabelBytes(l)]
    /\ UNCHANGED <<callVars, dname, liter, shown, fieldVars, layerVars, builderVars, dnsVars>>

NextName ==
    \/ \E s \in NameStrings : NameFrom(s)
    \/ \E data \in NameBuffers : NameNewUnchecked(data)
    \/ Labels
    \/ LabelNext
    \/ Display
    \/ \E l \in LabelBuffers : Inspect(l)

(***************************************************************************)
(* DNS questions and messages (layer/dns/question.rs, layer/dns.rs)        *)
(***************************************************************************)
DNS_MIN_HEADER_LENGTH == 12

DnsFields ==
    [ id |-> [range |-> <<0, 2>>, spec |-> IdSpec],
      qr |-> [range |-> <<2, 3>>, spec |-> QrSpec],
      opcode |-> [range |-> <<2, 3>>, spec |-> OpCodeSpec],
      aa |-> [range |-> <<2, 3>>, spec |-> AaSpec],
      tc |-> [range |-> <<2, 3>>, spec |-> TcSpec],
      rd |-> [range |-> <<2, 3>>, spec |-> RdSpec],
      ra |-> [range |-> <<3, 4>>, spec |-> RaSpec],
      z |-> [range |-> <<3, 4>>, spec |-> ZSpec],
      rcode |-> [range |-> <<3, 4>>, spec |-> RCodeSpec],
      qdcount |-> [range |-> <<4, 6>>, spec |-> CountSpec],
      ancount |-> [range |-> <<6, 8>>, spec |-> CountSpec],
      nscount |-> [range |-> <<8, 10>>, spec |-> CountSpec],
      arcount |-> [range |-> <<10, 12>>, spec |-> CountSpec] ]

\* Dns::validate / Dns::new
DnsValidate(data) ==
    IF Len(data) < 12 THEN InvalidLength(Len(data)) ELSE Ok

\* DnsQuestion { data, name_len }
Question(data, name_len) == [ok |-> TRUE, err |-> "None", data |-> data, name_len |-> name_len]
NoRootLabelFound == [ok |-> FALSE, err |-> "NoRootLabelFound", data |-> <<>>, name_len |-> 0]
\* new() taking the last zero byte for the end of the name
DnsQuestionNewLastZero(data) ==
    IF \A i \in DOMAIN data : data[i] # 0 THEN NoRootLabelFound
    ELSE Question(data, (CHOOSE i \in DOMAIN data :
                            data[i] = 0 /\ \A j \in (i + 1)..Len(data) : data[j] # 0) - 1)
\* DnsQuestion::new: position(|&x| x == 0).ok_or(NoRootLabelFound)
DnsQuestionNew(data) ==
    IF \A i \in DOMAIN data : data[i] # 0 THEN NoRootLabelFound
    ELSE Question(data, (CHOOSE i \in DOMAIN data :
                            data[i] = 0 /\ \A j \in 1..(i - 1) : data[j] # 0) - 1)
\* DnsQuestion::len
QuestionLen(q) == q.name_len + 4
\* DnsQuestion::qname: the name over data[..=name_len]
Qname(q) == Sliced(q.data, 0, q.name_len + 1)
\* the accessors of qtype and qclass: where they lie in data
QtypeField(q) == [range |-> <<q.name_len + 1, q.name_len + 3>>, spec |-> QtypeSpec]
QclassField(q) == [range |-> <<q.name_len + 3, q.name_len + 5>>, spec |-> QclassSpec]
\* qtype() over data[name_len..name_len + 2]
QtypeAtNameLen(q) ==
    IF SliceFaults(q.data, q.name_len, q.name_len + 2) THEN Panic
    ELSE Ret(FieldGet(QtypeSpec, Slice(q.data, q.name_len, q.name_len + 2)))
\* DnsQuestion::qtype().get()
Qtype(q) ==
    IF AccessFaults(q.data, QtypeField(q)) THEN Panic ELSE Ret(Read(q.data, QtypeField(q)))
\* DnsQuestion::qclass().get()
Qclass(q) ==
    IF AccessFaults(q.data, QclassField(q)) THEN Panic ELSE Ret(Read(q.data, QclassField(q)))

TypeA == [name |-> "A", raw |-> 0]
ClassInternet == [name |-> "Internet", raw |-> 0]
\* DnsQuestionBuilder::build
DnsQuestionBuild(b) ==
    LET qname == DnsNameFrom(UnwrapOr(b.qname, <<>>))
        qtype == UnwrapOr(b.qtype, TypeA)
        qclass == UnwrapOr(b.qclass, ClassInternet)
        len == Len(qname)
        resized == Question(qname \o <<0, 0, 0, 0>>, len - 1)
        typed == Write(resized.data, QtypeField(resized), qtype)
    IN  Question(Write(typed, QclassField(resized), qclass), len - 1)

\* DnsQuestionIter::next at (offset, current): None, or Some(question) and the
\* iterator's new position
QuestionIterNext(data, offset, current) ==
    LET none == [some |-> FALSE, q |-> NoRootLabelFound, offset |-> offset, current |-> current]
        q == DnsQuestionNew(SliceFrom(data, offset))
    IN  IF offset >= Len(data) \/ current >= BitsNat(Read(data, DnsFields.qdcount)) THEN none
        ELSE IF ~q.ok THEN none
        ELSE [some |-> TRUE, q |-> q, offset |-> offset + QuestionLen(q), current |-> current + 1]

RECURSIVE Inners(_)
\* extend_from_slice(question.inner()) for each question in turn
Inners(questions) ==
    IF questions = <<>> THEN <<>> ELSE Head(questions).data \o Inners(Tail(questions))
\* the header fields build() sets before the question count, in its order
DnsHeader(b) ==
    PutAll(Started(12),
        << <<DnsFields.id, UnwrapOr(b.f.id, NatBits(0, 16))>>,
           <<DnsFields.qr, UnwrapOr(b.f.qr, FALSE)>>,
           <<DnsFields.opcode, UnwrapOr(b.f.opcode, [name |-> "Query", raw |-> 0])>>,
           <<DnsFields.aa, UnwrapOr(b.f.aa, FALSE)>>,
           <<DnsFields.tc, UnwrapOr(b.f.tc, FALSE)>>,
           <<DnsFields.rd, UnwrapOr(b.f.rd, FALSE)>>,
           <<DnsFields.ra, UnwrapOr(b.f.ra, FALSE)>>,
           <<DnsFields.z, UnwrapOr(b.f.z, NatBits(0, 8))>>,
           <<DnsFields.rcode, UnwrapOr(b.f.rcode, [name |-> "NoError", raw |-> 0])>>,
           <<DnsFields.ancount, UnwrapOr(b.f.ancount, NatBits(0, 16))>>,
           <<DnsFields.nscount, UnwrapOr(b.f.nscount, NatBits(0, 16))>>,
           <<DnsFields.arcount, UnwrapOr(b.f.arcount, NatBits(0, 16))>> >>)
\* build() appending every question whatever the count
DnsBuildAllQuestions(b) ==
    LET qdcount == UnwrapOr(b.f.qdcount, NatBits(U16Wrap(Len(b.questions)), 16))
        dns == Put(DnsHeader(b), DnsFields.qdcount, qdcount)
    IN  [fault |-> dns.fault, data |-> dns.data \o Inners(b.questions)]
\* DnsBuilder::build
DnsBuild(b) ==
    LET qdcount == UnwrapOr(b.f.qdcount, NatBits(U16Wrap(Len(b.questions)), 16))
        dns == Put(DnsHeader(b), DnsFields.qdcount, qdcount)
        take == IF BitsNat(qdcount) < Len(b.questions) THEN BitsNat(qdcount)
                ELSE Len(b.questions)
    IN  [fault |-> dns.fault, data |-> dns.data \o Inners(SubSeq(b.questions, 1, take))]

(***************************************************************************)
(* SpecDns: a run studies one question (parsed or built), or one message   *)
(* (built by a DnsBuilder or received as bytes) and its question iterator  *)
(***************************************************************************)
\* at most this many field setter calls on the DnsBuilder
MaxDnsSets == 1
\* at most this many questions are handed to the DnsBuilder
MaxQuestions == 2

\* 03 'www' 06 'google' 03 'com' 00, type A, class IN; 07 'example' 03 'com' 00,
\* type A, class IN; 01 'a' 00, type AAAA, class 256
WwwGoogleComQuestion ==
    <<3, 119, 119, 119, 6, 103, 111, 111, 103, 108, 101, 3, 99, 111, 109, 0, 0, 1, 0, 1>>
ExampleComQuestion ==
    <<7, 101, 120, 97, 109, 112, 108, 101, 3, 99, 111, 109, 0, 0, 1, 0, 1>>
AQuestion == <<1, 97, 0, 0, 28, 1, 0>>
\* buffers given to DnsQuestion::new: questions, a question with bytes behind
\* it, a name cut before its root label, an empty buffer, a name without type
\* and class
QuestionBuffers ==
    { WwwGoogleComQuestion, AQuestion, ExampleComQuestion \o WwwGoogleComQuestion,
      <<3, 119, 119, 119>>, <<>>, <<1, 97, 0>> }
\* DnsQuestionBuilder states at build(): the dns_question! of the tests, a
\* name alone, nothing at all, every field set
QuestionBuilders ==
    { [qname |-> Some(WwwExampleCom), qtype |-> Some(TypeA), qclass |-> Some(ClassInternet)],
      [qname |-> Some(<<97>>), qtype |-> None, qclass |-> None],
      [qname |-> None, qtype |-> None, qclass |-> None],
      [qname |-> Some(<<97, 46, 98, 99>>), qtype |-> Some([name |-> "AAAA", raw |-> 0]),
       qclass |-> Some([name |-> "Reserved", raw |-> 256])] }
\* the questions handed to DnsBuilder::questions: the dns_question! of the
\* tests, one whose class ends in a zero byte, and a parsed one that owns more
\* bytes than its own
GivenQuestions ==
    { DnsQuestionBuild(b) : b \in { c \in QuestionBuilders : c.qtype # None } }
        \cup { DnsQuestionNew(ExampleComQuestion \o WwwGoogleComQuestion) }

DnsBuilderFields ==
    {"id", "qr", "opcode", "aa", "tc", "rd", "ra", "z", "rcode",
     "qdcount", "ancount", "nscount", "arcount"}
\* the values a caller passes to the setter of field n
DnsValues(n) ==
    CASE n = "id" -> { NatBits(258, 16) }
      [] n \in {"qr", "aa", "tc", "rd", "ra"} -> { TRUE }
      [] n = "opcode" -> { [name |-> "Status", raw |-> 0] }
      [] n = "rcode" -> { [name |-> "NXDomain", raw |-> 0] }
      [] n = "z" -> { NatBits(5, 8) }
      [] n = "qdcount" -> { NatBits(0, 16), NatBits(1, 16), NatBits(3, 16) }
      [] OTHER -> { NatBits(2, 16) }
\* a 12-byte header whose question count is q
HeaderOf(q) == <<1, 2, 0, 0, 0, q, 0, 0, 0, 0, 0, 0>>
\* messages received as bytes: fewer than 12 bytes, and headers with count
\* 0..3 before 0, 1 or 2 questions
RawMessages ==
    { <<>>, <<1, 2, 0, 0, 0, 1, 0, 0, 0, 0, 0>> }
        \cup { HeaderOf(q) \o body :
                 q \in 0..3,
                 body \in { <<>>, ExampleComQuestion, AQuestion,
                            WwwGoogleComQuestion \o ExampleComQuestion,
                            AQuestion \o AQuestion } }

NoQuestion == [state |-> "None"]
NoMsg == [state |-> "None"]
\* DnsBuilder::new()
DnsBuilderNew == [state |-> "New", f |-> [n \in DnsBuilderFields |-> None],
                  questions |-> <<>>, sets |-> 0]
\* a question with what its accessors return
Made(src, q) ==
    [state |-> "Made", src |-> src, res |-> q,
     len |-> QuestionLen(q),
     qname |-> IF Qname(q).fault THEN Panic ELSE DnsNameDisplay(Qname(q).bytes),
     qtype |-> Qtype(q), qclass |-> Qclass(q)]

InitDns ==
    /\ question = NoQuestion /\ dbuilder = DnsBuilderNew
    /\ msg = NoMsg /\ qiter = NoIter

\* DnsQuestion::new(data), then len(), qname().to_string(), qtype(), qclass()
QuestionNew(data) ==
    /\ question = NoQuestion /\ msg = NoMsg /\ dbuilder = DnsBuilderNew
    /\ question' = IF DnsQuestionNew(data).ok
                   THEN [given |-> data] @@ Made("new", DnsQuestionNew(data))
                   ELSE [given |-> data, state |-> "Made", src |-> "new",
                         res |-> DnsQuestionNew(data)]
    /\ UNCHANGED <<callVars, dbuilder, msg, qiter, fieldVars, layerVars, builderVars, nameVars>>

\* DnsQuestionBuilder::new(), its setters and build(), then the accessors
QuestionBuild(b) ==
    /\ question = NoQuestion /\ msg = NoMsg /\ dbuilder = DnsBuilderNew
    /\ question' = [given |-> b] @@ Made("build", DnsQuestionBuild(b))
    /\ UNCHANGED <<callVars, dbuilder, msg, qiter, fieldVars, layerVars, builderVars, nameVars>>

\* a field setter of DnsBuilder: self.f = Some(v.into())
DnsSetField(n, v) ==
    /\ msg = NoMsg /\ question = NoQuestion /\ dbuilder.sets < MaxDnsSets
    /\ dbuilder' = [dbuilder EXCEPT !.f[n] = Some(v), !.sets = @ + 1]
    /\ UNCHANGED <<callVars, question, msg, qiter, fieldVars, layerVars, builderVars, nameVars>>

\* DnsBuilder::questions(q): push
AddQuestion(q) ==
    /\ msg = NoMsg /\ question = NoQuestion /\ Len(dbuilder.questions) < MaxQuestions
    /\ dbuilder' = [dbuilder EXCEPT !.questions = Append(@, q)]
    /\ UNCHANGED <<callVars, question, msg, qiter, fieldVars, layerVars, builderVars, nameVars>>

\* DnsBuilder::build
DnsBuilderBuild ==
    /\ msg = NoMsg /\ question = NoQuestion
    /\ LET dns == DnsBuild(dbuilder)
       IN  msg' = [state |-> "Made", src |-> "build", res |-> Ok,
                   fault |-> dns.fault, data |-> dns.data]
    /\ UNCHANGED <<callVars, question, dbuilder, qiter, fieldVars, layerVars, builderVars, nameVars>>

\* Dns::new(data) on received bytes
DnsNew(data) ==
    /\ msg = NoMsg /\ question = NoQuestion /\ dbuilder = DnsBuilderNew
    /\ msg' = [state |-> "Made", src |-> "new", res |-> DnsValidate(data),
               fault |-> FALSE, data |-> data]
    /\ UNCHANGED <<callVars, question, dbuilder, qiter, fieldVars, layerVars, builderVars, nameVars>>

\* Dns::questions: DnsQuestionIter::from
Questions ==
    /\ msg # NoMsg /\ msg.res.ok /\ ~msg.fault /\ qiter = NoIter
    /\ qiter' = [state |-> "Running", offset |-> DNS_MIN_HEADER_LENGTH, current |-> 0,
                 yielded |-> <<>>, nones |-> 0]
    /\ UNCHANGED <<callVars, question, dbuilder, msg, fieldVars, layerVars, builderVars, nameVars>>

\* DnsQuestionIter::next, called again after a None up to MaxNones times
QuestionNext ==
    /\ qiter.state = "Running" \/ (qiter.state = "Done" /\ qiter.nones < MaxNones)
    /\ LET r == QuestionIterNext(msg.data, qiter.offset, qiter.current)
       IN  qiter' = IF ~r.some THEN [qiter EXCEPT !.state = "Done", !.nones = @ + 1]
                    ELSE [qiter EXCEPT !.state = "Running",
                                       !.offset = r.offset, !.current = r.current,
                                       !.yielded = Append(@, [at |-> qiter.offset,
                                                              q |-> Made("next", r.q)])]
    /\ UNCHANGED <<callVars, question, dbuilder, msg, fieldVars, layerVars, builderVars, nameVars>>

NextDns ==
    \/ \E data \in QuestionBuffers : QuestionNew(data)
    \/ \E b \in QuestionBuilders : QuestionBuild(b)
    \/ \E n \in DnsBuilderFields : \E v \in DnsValues(n) : DnsSetField(n, v)
    \/ \E q \in GivenQuestions : AddQuestion(q)
    \/ DnsBuilderBuild
    \/ \E data \in RawMessages : DnsNew(data)
    \/ Questions
    \/ QuestionNext

(***************************************************************************)
(* SpecTarget: a raw storage value is converted to its logical type        *)
(* (Target::from_underlay) and the logical value back (into_underlay)      *)
(***************************************************************************)
NoInput == [op |-> "None"]
NoResult == <<>>

\* the logical types converted here, each with its storage type
TargetTypes ==
    { <<"TcpFlags", U8>>, <<"EthType", U16>>, <<"DnsOpCode", U8>>,
      <<"DnsClass", U16>>, <<"DnsRCode", U8>> }
\* every raw value of the storage type
RawValues(U) == 0..(2 ^ (8 * U.size) - 1)

InitTarget ==
    /\ \E tu \in TargetTypes : \E n \in RawValues(tu[2]) :
          input = [op |-> "convert", T |-> tu[1], U |-> tu[2], raw |-> n]
    /\ result = NoResult

\* T::from_underlay(raw)
CallFromUnderlay ==
    /\ input.op = "convert" /\ result = NoResult
    /\ result' = [value |-> FromUnderlay(input.T, input.U, NatBits(input.raw, 8 * input.U.size)),
                  back |-> None]
    /\ UNCHANGED <<input, fieldVars, layerVars, builderVars, nameVars, dnsVars>>

\* value.into_underlay()
CallIntoUnderlay ==
    /\ input.op = "convert" /\ result # NoResult /\ result.back = None
    /\ result' = [result EXCEPT
                    !.back = Some(BitsNat(IntoUnderlay(input.T, input.U, result.value)))]
    /\ UNCHANGED <<input, fieldVars, layerVars, builderVars, nameVars, dnsVars>>

NextTarget == CallFromUnderlay \/ CallIntoUnderlay

(***************************************************************************)
(* SpecUnderlay: one method of Underlay is called on a byte array          *)
(* [u8; N], N in {3, 5, 6, 7} (impl_underlay!, the array arm)              *)
(***************************************************************************)
\* shl / shr: the array is widened to a u64, `tmp <<= shift` (`tmp >>= shift`)
\* is applied and the low N bytes are returned.  A shift of 64 or more
\* overflows the u64 shift: with overflow checks it panics, without them the
\* shift amount wraps to shift % 64.  `checks` tells which build it is.
ArrShlCall(a, s, checks) ==
    IF s >= 64 /\ checks THEN Panic ELSE Ret(ArrShl(a, s % 64))
ArrShrCall(a, s, checks) ==
    IF s >= 64 /\ checks THEN Panic ELSE Ret(ArrShr(a, s % 64))

ArraySizes == {3, 5, 6, 7}
\* arrays, shift amounts (a u8) and masks (the 8 big-endian bytes of a u64)
Arrays(n) == TestBytes(n) \cup PriorMems(Arr(n))
Shifts(n) == {0, 1, 4, 8, 12, 8 * n - 1, 8 * n, 8 * n + 1, 63, 64, 65, 128, 255}
Masks ==
    { U64_MAX, Mask64(<<>>), Mask64(<<15, 255, 240, 0>>), <<255, 0, 0, 0, 0, 0, 0, 0>>,
      [i \in 1..8 |-> (16 * i + 3) % 256], [i \in 1..8 |-> 255 - 17 * i] }

InitUnderlay ==
    /\ \E n \in ArraySizes : \E a \in Arrays(n) :
          \/ \E op \in {"shl", "shr"} : \E s \in Shifts(n) : \E checks \in BOOLEAN :
                input = [op |-> op, a |-> a, s |-> s, checks |-> checks]
          \/ \E m \in Masks : input = [op |-> "mask", a |-> a, m |-> m]
          \/ \E op \in {"bitand", "bitor"} : \E rhs \in Arrays(n) :
                input = [op |-> op, a |-> a, rhs |-> rhs]
          \/ \E op \in {"from_be", "from_le", "to_be", "to_le"} :
                input = [op |-> op, a |-> a]
    /\ result = NoResult

\* the call returns r
Returns(r) ==
    /\ result = NoResult
    /\ result' = r
    /\ UNCHANGED <<input, fieldVars, layerVars, builderVars, nameVars, dnsVars>>

CallShl == input.op = "shl" /\ Returns(ArrShlCall(input.a, input.s, input.checks))
CallShr == input.op = "shr" /\ Returns(ArrShrCall(input.a, input.s, input.checks))
CallMask == input.op = "mask" /\ Returns(Ret(Mask(Arr(Len(input.a)), input.a, BytesBits(input.m))))
CallBitand == input.op = "bitand" /\ Returns(Ret(Bitand(Arr(Len(input.a)), input.a, input.rhs)))
CallBitor == input.op = "bitor" /\ Returns(Ret(Bitor(Arr(Len(input.a)), input.a, input.rhs)))
CallFromBe == input.op = "from_be" /\ Returns(Ret(FromBe(Arr(Len(input.a)), input.a)))
CallFromLe == input.op = "from_le" /\ Returns(Ret(FromLe(Arr(Len(input.a)), input.a)))
CallToBe == input.op = "to_be" /\ Returns(Ret(ToBe(Arr(Len(input.a)), input.a)))
CallToLe == input.op = "to_le" /\ Returns(Ret(ToLe(Arr(Len(input.a)), input.a)))

NextUnderlay ==
    \/ CallShl \/ CallShr \/ CallMask \/ CallBitand \/ CallBitor
    \/ CallFromBe \/ CallFromLe \/ CallToBe \/ CallToLe

(***************************************************************************)
(* SpecMut: a view whose fields are set and read through their accessors   *)
(***************************************************************************)
\* DnsLabel::type_, len and offset: data[0..1], data[0..1], data[0..2]; len is
\* Some for a normal label and offset for a compressed one
LabelFields ==
    [ label_type |-> [range |-> <<0, 1>>, spec |-> TypeSpec],
      len |-> [range |-> <<0, 1>>, spec |-> LenSpec],
      offset |-> [range |-> <<0, 2>>, spec |-> OffsetSpec] ]
\* the accessors of a view, each with its declared range and its spec
Accessors(v) ==
    CASE v.layer = "Eth" -> EthFields
      [] v.layer = "Ipv4" -> Ipv4Fields
      [] v.layer = "Tcp" -> TcpFields
      [] v.layer = "Udp" -> UdpFields
      [] v.layer = "Dns" -> DnsFields
      [] v.layer = "DnsLabel" ->
            [ n \in {"label_type"}
                       \cup (IF LabelIsNormal(v.data).val THEN {"len"} ELSE {})
                       \cup (IF LabelIsCompressed(v.data).val THEN {"offset"} ELSE {})
                |-> LabelFields[n] ]
      [] v.layer = "DnsQuestion" ->
            [ qtype |-> QtypeField(v), qclass |-> QclassField(v) ]
FieldNames(v) == IF v.layer = "None" THEN {} ELSE DOMAIN Accessors(v)
\* the layers that have x_mut() accessors: DnsLabel has none
Mutable == {"Eth", "Ipv4", "Tcp", "Udp", "Dns", "DnsQuestion"}
MutNames(v) == IF v.layer \in Mutable THEN DOMAIN Accessors(v) ELSE {}

\* at most this many sets on one view
MaxMutSets == 2

\* the buffers the views are made over: a header with 4 or 8 bytes behind it,
\* a normal label and a pointer, a question and one cut after its name
MutBuffers(layer) ==
    CASE layer = "Eth" -> { Prefix(Fill, 18) }
      [] layer = "Ipv4" -> { Prefix(Ipv4Packet(6, 6), 28) }
      [] layer = "Tcp" -> { Prefix(Overlay(Fill, 12, <<16 * 6 + 5>>), 28) }
      [] layer = "Udp" -> { Prefix(Fill, 12) }
      [] layer = "Dns" -> { <<1, 2, 165, 90, 0, 1, 0, 0, 0, 0, 0, 0>> \o AQuestion }
      [] layer = "DnsLabel" -> { <<3, 97, 98, 99>>, <<192, 12>>, <<0>> }
      [] layer = "DnsQuestion" -> { AQuestion, <<1, 97, 0>> }
\* the values a caller sets: a few of the field's type that fit in the field,
\* and for the two header-length fields a length below the fixed header, one
\* inside the buffer and one past its end
MutHeaderLens == {1, 6, 15}
MutValues(F) ==
    LET all ==
          CASE F.name \in {"IhlSpec", "DataOffsetSpec"} -> { NatBits(k, 8) : k \in MutHeaderLens }
            [] F.T = "u8" /\ F.name \notin {"IhlSpec", "DataOffsetSpec"} -> { NatBits(1, 8), NatBits(6, 8) }
            [] F.T = "u16" -> { NatBits(258, 16) }
            [] F.T = "u32" -> { BytesBits(<<1, 2, 3, 4>>) }
            [] F.T = "bool" -> BOOLEAN
            [] F.T = "EthAddr" -> { [octets |-> <<2, 0, 0, 0, 0, 1>>] }
            [] F.T = "Ipv4Addr" -> { [octets |-> <<192, 168, 0, 1>>] }
            [] F.T = "EthType" ->
                  { EnumFromPrimitive(EthType, "Reserved", n) : n \in {\h0806, \h1234} }
            [] F.T = "IpProtocol" -> { EnumFromPrimitive(IpProtocol, "Reserved", 17) }
            [] F.T = "TcpFlags" -> { {"SYN", "ACK"} }
            [] F.T = "DnsOpCode" ->
                  { EnumFromPrimitive(DnsOpCode, "Unassigned", n) : n \in {2, 15, 16} }
            [] F.T = "DnsRCode" ->
                  { EnumFromPrimitive(DnsRCode, "Unassigned", n) : n \in {3, 15, 16} }
            [] F.T = "DnsRrType" ->
                  { EnumFromPrimitive(DnsRrType, "Reserved", n) : n \in {1, 65280} }
            [] F.T = "DnsClass" ->
                  { EnumFromPrimitive(DnsClass, "Reserved", n) : n \in {3, 65280} }
    IN  { v \in all : Fits(F, v) }
\* the values of every accessor's spec, worked out once
MutSpecs ==
    UNION { { fields[n].spec : n \in DOMAIN fields } :
              fields \in {EthFields, Ipv4Fields, TcpFields, UdpFields, DnsFields} }
        \cup {QtypeSpec, QclassSpec}
MutValuesOf == [F \in MutSpecs |-> MutValues(F)]

\* new() of a layer over a buffer it accepts; DnsLabel::new_unchecked
MutNew(layer) ==
    /\ view = NoView /\ out = NoOut
    /\ \E b \in MutBuffers(layer) :
        LET q == DnsQuestionNew(b)
        IN  /\ buf' = b
            /\ out' = [op |-> "new", layer |-> layer]
            /\ view' = [layer |-> layer, data |-> b, off |-> 0, via |-> <<"new">>,
                        name_len |-> IF layer = "DnsQuestion" THEN q.name_len ELSE 0,
                        sets |-> <<>>]
    /\ UNCHANGED <<callVars, fieldVars, builderVars, nameVars, dnsVars>>

\* x_mut().set(v): the slice data[FIELD_X] is taken, then Field::set runs on
\* the storage at its start
SetMut(n, v) ==
    /\ view.layer \in Mutable /\ Len(view.sets) < MaxMutSets
    /\ LET f == Accessors(view)[n]
       IN  IF AccessFaults(view.data, f)
           THEN /\ out' = [op |-> "set", field |-> n, fault |-> TRUE]
                /\ view' = [view EXCEPT !.sets = Append(@, [field |-> n, v |-> v,
                                                            before |-> view.data,
                                                            fault |-> TRUE])]
           ELSE /\ out' = [op |-> "set", field |-> n, fault |-> FALSE]
                /\ view' = [view EXCEPT !.data = Write(view.data, f, v),
                                        !.sets = Append(@, [field |-> n, v |-> v,
                                                            before |-> view.data,
                                                            fault |-> FALSE])]
    /\ UNCHANGED <<callVars, buf, fieldVars, builderVars, nameVars, dnsVars>>

\* x().get() of each accessor of the view in turn
GetMut ==
    /\ view.layer # "None"
    /\ out' = [op |-> "get",
               res |-> [n \in FieldNames(view) |->
                          LET f == Accessors(view)[n]
                          IN  IF AccessFaults(view.data, f) THEN Panic
                              ELSE Ret(Read(view.data, f))]]
    /\ UNCHANGED <<callVars, buf, view, fieldVars, builderVars, nameVars, dnsVars>>

MutLayers == {"Eth", "Ipv4", "Tcp", "Udp", "Dns", "DnsLabel", "DnsQuestion"}
InitMut == buf = <<>> /\ view = NoView /\ out = NoOut
NextMut ==
    \/ \E layer \in MutLayers : MutNew(layer)
    \/ \E n \in MutNames(view) : \E v \in MutValuesOf[Accessors(view)[n].spec] : SetMut(n, v)
    \/ GetMut
    \/ CallOptions
    \/ CallPayload

(***************************************************************************)
(* SpecIter: the two DNS iterators driven to their end and past it         *)
(***************************************************************************)
\* messages whose question section is not well formed: a name without its
\* root label, a count far above what the bytes hold, zero bytes alone, a
\* question cut after its name
GarbledMessages ==
    { HeaderOf(3) \o <<1, 97, 98>>,
      HeaderOf(200) \o ZeroBytes(9),
      <<255, 255, 255, 255, 255, 255, 0, 0, 0, 0, 0, 0>> \o <<1, 97, 0>>,
      HeaderOf(2) \o AQuestion \o <<3, 119>> }
InitIter == InitName /\ InitDns
NextIter ==
    \/ \E s \in NameStrings : NameFrom(s)
    \/ \E data \in NameBuffers : NameNewUnchecked(data)
    \/ Labels
    \/ LabelNext
    \/ \E data \in RawMessages \cup GarbledMessages : DnsNew(data)
    \/ Questions
    \/ QuestionNext

\* the variables of the other specifications, at rest
IdleField ==
    /\ fspec = [name |-> "None"] /\ fmem = <<>> /\ fprev = <<>>
    /\ flast = NoValue /\ fsets = 0 /\ fgot = NoValue
IdleLayer == buf = <<>> /\ view = NoView /\ out = NoOut
IdleBuilder == builder = [kind |-> "None"] /\ calls = 0 /\ built = NotBuilt
IdleName == dname = NoName /\ liter = NoIter /\ shown = NotShown /\ label = NoLabel
IdleDns == question = NoQuestion /\ dbuilder = [state |-> "None"]
               /\ msg = NoMsg /\ qiter = NoIter
IdleCall == input = NoInput /\ result = NoResult

NextField == (\E v \in Values(fspec.T, fspec.U) : Set(v)) \/ Get
FieldInit == InitField /\ IdleLayer /\ IdleBuilder /\ IdleName /\ IdleDns /\ IdleCall
SpecField == FieldInit /\ [][NextField]_vars
LayerInit == InitLayer /\ IdleField /\ IdleBuilder /\ IdleName /\ IdleDns /\ IdleCall
SpecLayer == LayerInit /\ [][NextLayer]_vars
BuilderInit == InitBuilder /\ IdleField /\ IdleLayer /\ IdleName /\ IdleDns /\ IdleCall
SpecBuilder == BuilderInit /\ [][NextBuilder]_vars
NameInit == InitName /\ IdleField /\ IdleLayer /\ IdleBuilder /\ IdleDns /\ IdleCall
SpecName == NameInit /\ [][NextName]_vars
DnsInit == InitDns /\ IdleField /\ IdleLayer /\ IdleBuilder /\ IdleName /\ IdleCall
SpecDns == DnsInit /\ [][NextDns]_vars
TargetInit ==
    InitTarget /\ IdleField /\ IdleLayer /\ IdleBuilder /\ IdleName /\ IdleDns
SpecTarget == TargetInit /\ [][NextTarget]_vars
UnderlayInit ==
    InitUnderlay /\ IdleField /\ IdleLayer /\ IdleBuilder /\ IdleName /\ IdleDns
SpecUnderlay == UnderlayInit /\ [][NextUnderlay]_vars
MutInit == InitMut /\ IdleField /\ IdleBuilder /\ IdleName /\ IdleDns /\ IdleCall
SpecMut == MutInit /\ [][NextMut]_vars
IterInit == InitIter /\ IdleField /\ IdleLayer /\ IdleBuilder /\ IdleCall
SpecIter == IterInit /\ [][NextIter]_vars

(***************************************************************************)
(* Properties of the field accessor                                        *)
(***************************************************************************)
\* the storage value in its normalised byte order
Normalised(F, mem) == IF F.msb THEN FromBe(F.U, mem) ELSE FromLe(F.U, mem)

\* C1: for every field shape, every prior content of the storage and every
\* value x that fits in the field, set(x) followed by get() returns x; after a
\* sequence of sets, get() returns the value of the last set.
C1_SetThenGet ==
    (fgot # NoValue /\ flast # NoValue /\ Fits(fspec, flast[1])) => fgot = flast

\* C1 witness: a second set on a masked and shifted array field in LSB mode,
\* over storage that was not zero, read back.
C1_Witness ==
    /\ fsets = 2 /\ fgot # NoValue /\ fgot = flast
    /\ fspec.U.kind = "arr" /\ fspec.shift > 0 /\ ~fspec.msb
    /\ Fits(fspec, flast[1])
    /\ FieldSet(fspec, fprev, flast[1]) # FieldSet(fspec, [i \in 1..fspec.U.size |-> 0], flast[1])
    /\ flast[1].octets # [i \in 1..fspec.U.size |-> 0]

\* C2: for every masked field and every value of its logical type, every bit
\* of the storage outside the field's mask is the same after set as before.
C2_SetKeepsOtherBits ==
    (fsets > 0 /\ fspec.mask # U64_MAX) =>
        Mask(fspec.U, Normalised(fspec, fmem), BitsNot(BytesBits(fspec.mask)))
            = Mask(fspec.U, Normalised(fspec, fprev), BitsNot(BytesBits(fspec.mask)))


(***************************************************************************)
(* Properties of the layer views                                           *)
(***************************************************************************)
\* C3: for each of Eth, Ipv4, Tcp and Udp and every buffer b, new(b) is Ok
\* exactly when b.len() is at least 14, 20, 20 and 8; otherwise it is the
\* layer's InvalidLength error carrying b.len(), and there is no view.
C3_NewChecksLength ==
    out.op = "new" =>
        LET min == CASE out.layer = "Eth" -> 14 [] out.layer = "Ipv4" -> 20
                     [] out.layer = "Tcp" -> 20 [] out.layer = "Udp" -> 8
        IN  /\ out.res.ok <=> Len(buf) >= min
            /\ out.res.ok => view.layer = out.layer /\ view.data = buf
            /\ ~out.res.ok =>
                 /\ out.res.err = "InvalidLength" /\ out.res.len = Len(buf)
                 /\ view = NoView

\* C3 witness: Tcp::new on a 19-byte buffer was refused.
C3_Witness ==
    /\ out.op = "new" /\ out.layer = "Tcp" /\ Len(buf) = 19
    /\ ~out.res.ok /\ out.res.len = 19

\* C4: for an Ipv4 or Tcp view whose header-length field h has 5 <= h and
\* 4*h <= len, options() is exactly the bytes [20, 4*h) and payload() the
\* bytes [4*h, len); for Eth and Udp payload() is the bytes from 14 and 8.
C4_OptionsPayloadSplit ==
    LET data == view.data
        h == IF view.layer = "Ipv4" THEN data[1] % 16 ELSE data[13] \div 16
    IN  /\ (out.op = "options" /\ 5 <= h /\ 4 * h <= Len(data)) =>
              ~out.res.fault /\ out.res.bytes = SubSeq(data, 21, 4 * h)
        /\ (out.op = "payload" /\ view.layer \in {"Ipv4", "Tcp"}
                /\ 5 <= h /\ 4 * h <= Len(data)) =>
              ~out.res.fault /\ out.res.bytes = SubSeq(data, 4 * h + 1, Len(data))
        /\ (out.op = "payload" /\ view.layer = "Eth") =>
              ~out.res.fault /\ out.res.bytes = SubSeq(data, 15, Len(data))
        /\ (out.op = "payload" /\ view.layer = "Udp") =>
              ~out.res.fault /\ out.res.bytes = SubSeq(data, 9, Len(data))

\* C5: for every frame Eth::new accepts, ipv4() is Some exactly when the type
\* field is 0x0800 and at least 20 bytes follow offset 14, and the view covers
\* exactly those bytes; any other type gives None.  eth.ipv4() then udp() on a
\* frame with protocol 17 (and room for the 8-byte UDP header after the IPv4
\* header) exposes the source and destination ports stored in the frame.
C5_EthChain ==
    /\ out.op = "ipv4" =>
          /\ ~out.res.fault
          /\ out.res.some <=> (SubSeq(buf, 13, 14) = <<8, 0>> /\ Len(buf) - 14 >= 20)
          /\ out.res.some =>
                view.layer = "Ipv4" /\ view.off = 14 /\ view.data = SubSeq(buf, 15, Len(buf))
    /\ (out.op = "udp" /\ out.parent.via = <<"new", "ipv4">>) =>
          LET at == 14 + 4 * (buf[15] % 16)
          IN  (buf[24] = 17 /\ at + 8 <= Len(buf)) =>
                /\ out.res.some /\ view.layer = "Udp"
                /\ BitsNat(Read(view.data, UdpFields.src_port)) = 256 * buf[at + 1] + buf[at + 2]
                /\ BitsNat(Read(view.data, UdpFields.dst_port)) = 256 * buf[at + 3] + buf[at + 4]

\* C5 witness: a frame of type 0x0800 with IHL 5 and protocol 17 was resolved
\* to its UDP datagram at offset 34.
C5_Witness ==
    /\ out.op = "udp" /\ out.res.some /\ view.layer = "Udp"
    /\ view.via = <<"new", "ipv4", "udp">> /\ view.off = 34
    /\ buf[15] = 69 /\ buf[24] = 17

\* C6: for every Ipv4 view Ipv4::new accepts, whatever its IHL, tcp() and
\* udp() return without faulting: Some exactly when the protocol matches (6,
\* 17) and at least 20 (tcp) or 8 (udp) bytes follow the 4*IHL header.
C6_NextLayerNeverFaults ==
    out.op \in {"tcp", "udp"} =>
        LET data == out.parent.data
            matches == data[10] = (IF out.op = "tcp" THEN 6 ELSE 17)
            min == IF out.op = "tcp" THEN 20 ELSE 8
        IN  /\ ~out.res.fault
            /\ out.res.some <=> (matches /\ Len(data) - 4 * (data[1] % 16) >= min)

(***************************************************************************)
(* Properties of the builders                                              *)
(***************************************************************************)
\* the fields a build derives when they are not set
Derived == {"ihl", "data_offset", "total_length", "length"}
\* the default an unset field is documented to read back
DocumentedDefault(kind, n) ==
    LET T == LayerFields(kind)[n].spec.T
    IN  CASE kind = "Ipv4" /\ n = "ttl" -> NatBits(64, 8)
          [] kind = "Tcp" /\ n = "window_size" -> NatBits(64, 16)
          [] kind = "Ipv4" /\ n = "protocol" -> [name |-> "Reserved", raw |-> 255]
          [] kind = "Eth" /\ n = "eth_type" -> [name |-> "Reserved", raw |-> \hFFFF]
          [] OTHER ->
                CASE IsUint(T) -> Zeros(UintBits(T))
                  [] T = "TcpFlags" -> {}
                  [] T = "EthAddr" -> [octets |-> <<0, 0, 0, 0, 0, 0>>]
                  [] T = "Ipv4Addr" -> [octets |-> <<0, 0, 0, 0>>]
\* the header-length field of a built Ipv4 or Tcp buffer
HeaderLen(kind, data) == IF kind = "Ipv4" THEN Ipv4Ihl(data) ELSE TcpDataOffset(data)

\* C7: for each builder and each optional field f with a value v of its logical
\* type, a builder on which only f was set to v builds a view whose accessor
\* for f reads back v, and every field left unset reads back its documented
\* default (the derived length fields aside).
C7_BuilderRoundTrip ==
    (built.state = "Built" /\ calls = 1 /\ Cardinality(FieldsSet(builder)) = 1) =>
        /\ ~built.fault
        /\ \A n \in BuilderFields(builder.kind) :
              LET got == Read(built.data, LayerFields(builder.kind)[n])
              IN  /\ builder.f[n] # None => got = builder.f[n][1]
                  /\ (builder.f[n] = None /\ n \notin Derived) =>
                        got = DocumentedDefault(builder.kind, n)

\* C8: build() never fails: in every state a builder reaches through its
\* setters, build returns a view without faulting.
C8_BuildNeverFaults ==
    built.state = "Built" => ~built.fault

\* C9: an Ipv4Builder or TcpBuilder on which only a payload of n bytes is set
\* builds a view whose header-length field is 5, whose payload() is the n
\* payload bytes and (IPv4) whose total-length field is 20 + n.
C9_PayloadOnly ==
    (built.state = "Built" /\ builder.kind \in {"Ipv4", "Tcp"}
        /\ FieldsSet(builder) = {} /\ builder.options = <<>>) =>
        /\ ~built.fault
        /\ HeaderLen(builder.kind, built.data) = 5
        /\ PayloadOf(builder.kind, built.data) =
              [fault |-> FALSE, bytes |-> builder.payload, start |-> 20]
        /\ builder.kind = "Ipv4" =>
              BitsNat(Read(built.data, Ipv4Fields.total_length)) = 20 + Len(builder.payload)

\* C10: for an Ipv4Builder or TcpBuilder with options of L bytes (0 <= L <= 40)
\* and no explicit header length, the built header-length field h is the least
\* value with 4*h >= 20 + L, the options are in the buffer from offset 20 and
\* the payload is at offset 4*h.  (Stated for payloads of at most 40 bytes and
\* no other field set.)
C10_OptionsHeaderLength ==
    (built.state = "Built" /\ builder.kind \in {"Ipv4", "Tcp"}
        /\ FieldsSet(builder) = {} /\ Len(builder.options) <= 40
        /\ Len(builder.payload) <= 40) =>
        LET L == Len(builder.options)
            h == (20 + L + 3) \div 4
        IN  /\ ~built.fault
            /\ HeaderLen(builder.kind, built.data) = h
            /\ SubSeq(built.data, 21, 20 + L) = builder.options
            /\ SubSeq(built.data, 4 * h + 1, Len(built.data)) = builder.payload

\* C11: for an Ipv4Builder or UdpBuilder on which no length field (header
\* length, total length, length) is set, whatever the payload length, the
\* built buffer is header bytes (20, 8) + options bytes + payload bytes long
\* and the total-length / length field holds that number; the 8-bit and 16-bit
\* arithmetic of build() is kept at its width.  (Stated for options that fill
\* whole 32-bit words, so that the header length can count them.)
C11_DerivedLength ==
    (built.state = "Built" /\ builder.kind \in {"Ipv4", "Udp"}
        /\ FieldsSet(builder) \cap Derived = {}
        /\ Len(builder.options) % 4 = 0) =>
        LET header == IF builder.kind = "Ipv4" THEN IPV4_MIN_HEADER_LENGTH
                      ELSE UDP_MIN_HEADER_LENGTH
            total == header + Len(builder.options) + Len(builder.payload)
            field == IF builder.kind = "Ipv4" THEN Ipv4Fields.total_length
                     ELSE UdpFields.length
        IN  /\ ~built.fault
            /\ Len(built.data) = total
            /\ BitsNat(Read(built.data, field)) = total

(***************************************************************************)
(* Properties of DNS names and labels                                      *)
(***************************************************************************)
\* the length of the run of bytes other than '.' that starts at index i of s
SegLenAt(s, i) == Cardinality({ j \in i..Len(s) : \A k \in i..j : s[k] # 46 })
\* s is a dotted name whose segments are non-empty and at most 63 bytes
DottedName(s) ==
    /\ s # <<>> /\ s[1] # 46 /\ s[Len(s)] # 46
    /\ \A i \in 1..(Len(s) - 1) : ~(s[i] = 46 /\ s[i + 1] = 46)
    /\ \A i \in 1..Len(s) : SegLenAt(s, i) <= 63

\* C12: for every dotted name s whose segments are non-empty and at most 63
\* bytes, DnsName::from(s) is, per segment in order, one length byte and the
\* segment's bytes, then a single zero byte (s with a leading length byte,
\* every '.' replaced by the length of the segment after it, and a final 0);
\* labels() yields exactly the segments in order and then one empty root
\* label; Display renders s followed by a dot.
C12_NameRoundTrip ==
    (dname.src = "from" /\ DottedName(dname.str)) =>
        LET s == dname.str
            data == dname.data
            segments == SplitDot(s) \o << <<>> >>
        IN  /\ Len(data) = Len(s) + 2
            /\ data[1] = SegLenAt(s, 1)
            /\ \A i \in 1..Len(s) :
                  data[i + 1] = IF s[i] = 46 THEN SegLenAt(s, i + 1) ELSE s[i]
            /\ data[Len(s) + 2] = 0
            /\ liter # NoIter =>
                  /\ liter.state # "Fault"
                  /\ Len(liter.yielded) <= Len(segments)
                  /\ \A i \in 1..Len(liter.yielded) :
                        liter.yielded[i] = <<Len(segments[i])>> \o segments[i]
                  /\ liter.state = "Done" => Len(liter.yielded) = Len(segments)
            /\ shown # NotShown => ~shown.fault /\ shown.text = s \o <<46>>

\* C12 witness: "www.example.com" became 03 'www' 07 'example' 03 'com' 00, its
\* four labels were yielded before None, and it was rendered "www.example.com."
C12_Witness ==
    /\ dname.src = "from" /\ dname.str = WwwExampleCom
    /\ dname.data = <<3, 119, 119, 119, 7, 101, 120, 97, 109, 112, 108, 101, 3, 99, 111, 109, 0>>
    /\ liter.state = "Done" /\ Len(liter.yielded) = 4
    /\ liter.yielded[4] = <<0>> /\ liter.yielded[2] = <<7, 101, 120, 97, 109, 112, 108, 101>>
    /\ shown.state = "Shown" /\ shown.text = WwwExampleCom \o <<46>>

\* the buffer from `offset` on is a run of normal labels, each inside the buffer
RECURSIVE NormalLabels(_, _)
NormalLabels(data, offset) ==
    \/ offset >= Len(data)
    \/ /\ data[offset + 1] < 64
       /\ offset + 1 + data[offset + 1] <= Len(data)
       /\ NormalLabels(data, offset + 1 + data[offset + 1])

\* C18: label iteration stops at the first root label: for every name buffer
\* of normal labels, once labels() has yielded a zero-length label the next
\* call of next() returns None and yields nothing more, whatever bytes follow
\* the root label in the buffer.
C18_StopsAtRoot ==
    [][ ( /\ liter.state = "Running" /\ liter' # liter
          /\ NormalLabels(dname.data, 0)
          /\ \E i \in DOMAIN liter.yielded : liter.yielded[i] = <<0>> )
        => (liter'.state = "Done" /\ liter'.yielded = liter.yielded) ]_vars

\* the buffer from `offset` on is normal labels of 1..63 bytes and then a
\* two-byte compression pointer that ends the buffer
RECURSIVE EndsInPointer(_, _)
EndsInPointer(data, offset) ==
    /\ offset + 2 <= Len(data)
    /\ IF data[offset + 1] \div 64 = 3 THEN offset + 2 = Len(data)
       ELSE /\ data[offset + 1] \in 1..63
            /\ EndsInPointer(data, offset + 1 + data[offset + 1])
\* such a name as the format reads it: each label and a dot, then PTR(offset)
RECURSIVE PointerText(_, _)
PointerText(data, offset) ==
    LET b == data[offset + 1]
    IN  IF b \div 64 = 3
        THEN <<80, 84, 82, 40>> \o Decimal((256 * b + data[offset + 2]) % 16384) \o <<41>>
        ELSE SubSeq(data, offset + 2, offset + 1 + b) \o <<46>>
                 \o PointerText(data, offset + 1 + b)

\* C19: formatting a DnsName whose bytes end in a two-byte compression pointer
\* (03 'www' C0 0C) returns, without faulting, the normal labels each followed
\* by a dot and then PTR(offset) with the pointer's 14-bit offset.
C19_PointerDisplay ==
    (shown # NotShown /\ EndsInPointer(dname.data, 0)) =>
        ~shown.fault /\ shown.text = PointerText(dname.data, 0)

\* the label buffer holds the bytes its leading byte announces
WholeLabel(l) ==
    /\ Len(l) >= 1
    /\ l[1] \div 64 = 0 => Len(l) >= 1 + l[1]
    /\ l[1] \div 64 = 3 => Len(l) >= 2

\* C20: for every DnsLabel buffer with leading byte b: top bits 00 make it
\* normal, len() the low 6 bits of b, label() the len bytes after b and
\* offset() None; top bits 11 make it compressed, offset() the low 14 bits of
\* the big-endian 16-bit value of the first two bytes, len() and label() None;
\* top bits 01 and 10 make it neither normal nor compressed.
C20_LabelKinds ==
    (label # NoLabel /\ WholeLabel(label.data)) =>
        LET l == label.data
            b == l[1]
        IN  /\ ~label.is_normal.fault /\ ~label.is_compressed.fault
            /\ ~label.len.fault /\ ~label.offset.fault /\ ~label.label.fault
            /\ label.is_normal.val <=> b \div 64 = 0
            /\ label.is_compressed.val <=> b \div 64 = 3
            /\ b \div 64 = 0 =>
                  /\ label.len.val = Some(b % 64)
                  /\ label.label.val = Some(SubSeq(l, 2, 1 + (b % 64)))
                  /\ label.offset.val = None
            /\ b \div 64 = 3 =>
                  /\ label.offset.val = Some((256 * b + l[2]) % 16384)
                  /\ label.len.val = None /\ label.label.val = None

\* C20 witness: the pointer FF FF was read as compressed with offset 16383,
\* without a length or content.
C20_Witness ==
    /\ label # NoLabel /\ label.data = <<255, 255>>
    /\ label.is_compressed.val /\ ~label.is_normal.val
    /\ label.offset.val = Some(16383) /\ label.len.val = None

(***************************************************************************)
(* Properties of DNS questions and messages                                *)
(***************************************************************************)
\* the index (from 1) of the first zero byte of data at or after index i
FirstZero(data, i) ==
    CHOOSE z \in i..Len(data) : data[z] = 0 /\ \A j \in i..(z - 1) : data[j] # 0
\* from `offset`, data holds labels of 1..63 non-zero bytes, a zero byte and at
\* least 4 more bytes
RECURSIVE WellFormedQuestion(_, _)
WellFormedQuestion(data, offset) ==
    /\ offset < Len(data)
    /\ IF data[offset + 1] = 0 THEN offset + 5 <= Len(data)
       ELSE /\ data[offset + 1] <= 63
            /\ offset + 1 + data[offset + 1] < Len(data)
            /\ \A j \in (offset + 2)..(offset + 1 + data[offset + 1]) : data[j] # 0
            /\ WellFormedQuestion(data, offset + 1 + data[offset + 1])
\* the dotted name such bytes spell: every label followed by a dot
RECURSIVE DottedText(_, _)
DottedText(data, offset) ==
    IF data[offset + 1] = 0 THEN <<>>
    ELSE SubSeq(data, offset + 2, offset + 1 + data[offset + 1]) \o <<46>>
             \o DottedText(data, offset + 1 + data[offset + 1])
\* the big-endian 16-bit value at index i (from 1)
Be16(data, i) == 256 * data[i] + data[i + 1]

\* C13: for every buffer made of a well-formed uncompressed name (labels of
\* non-zero bytes, ending in a zero byte), a 2-byte type and a 2-byte class,
\* DnsQuestion::new succeeds, qname() renders the dotted name with a trailing
\* dot, and qtype() and qclass() are the big-endian 16-bit values in the 2 + 2
\* bytes right after the zero byte; type 1 reads as A and class 1 as Internet.
C13_QuestionParse ==
    (question # NoQuestion /\ question.src = "new"
        /\ WellFormedQuestion(question.given, 0) /\ question.given[1] # 0
        /\ Len(question.given) = FirstZero(question.given, 1) + 4) =>
        LET data == question.given
            z == FirstZero(data, 1)
        IN  /\ question.res.ok
            /\ ~question.qname.fault /\ question.qname.val = DottedText(data, 0)
            /\ ~question.qtype.fault /\ ~question.qclass.fault
            /\ EnumIntoPrimitive(DnsRrType, "Reserved", question.qtype.val) = Be16(data, z + 1)
            /\ EnumIntoPrimitive(DnsClass, "Reserved", question.qclass.val) = Be16(data, z + 3)
            /\ Be16(data, z + 1) = 1 => question.qtype.val.name = "A"
            /\ Be16(data, z + 3) = 1 => question.qclass.val.name = "Internet"

\* C13 witness: 03 'www' 06 'google' 03 'com' 00 00 01 00 01 was parsed as
\* "www.google.com.", A, Internet.
C13_Witness ==
    /\ question # NoQuestion /\ question.src = "new"
    /\ question.given = WwwGoogleComQuestion /\ question.res.ok
    /\ question.qname.val = WwwGoogleCom \o <<46>>
    /\ question.qtype.val = TypeA /\ question.qclass.val = ClassInternet

\* C14: for every DnsQuestion, parsed by new or built by DnsQuestionBuilder,
\* len() is the length of its name with the terminating zero byte plus 4: the
\* number of bytes from the start of the name through the last byte of the
\* class field.
C14_QuestionLen ==
    (question # NoQuestion /\ question.res.ok) =>
        /\ question.src = "new" => question.len = FirstZero(question.given, 1) + 4
        /\ question.src = "build" => question.len = Len(question.res.data)

\* C17: DnsQuestion::new(data) is Err(NoRootLabelFound) exactly when data has
\* no zero byte; otherwise it is Ok and the name ends at the first zero byte.
C17_NoRootLabel ==
    (question # NoQuestion /\ question.src = "new") =>
        LET data == question.given
        IN  /\ ~question.res.ok <=> \A i \in DOMAIN data : data[i] # 0
            /\ ~question.res.ok => question.res.err = "NoRootLabelFound"
            /\ question.res.ok =>
                  /\ question.res.name_len + 1 = FirstZero(data, 1)
                  /\ Qname(question.res) = [fault |-> FALSE, start |-> 0,
                                            bytes |-> SubSeq(data, 1, FirstZero(data, 1))]

\* C17 witness: 03 'www', which has no zero byte, was refused.
C17_Witness ==
    /\ question # NoQuestion /\ question.src = "new"
    /\ question.given = <<3, 119, 119, 119>>
    /\ ~question.res.ok /\ question.res.err = "NoRootLabelFound"

\* from `offset` to its end, data is well-formed questions back to back
RECURSIVE WholeQuestions(_, _)
WholeQuestions(data, offset) ==
    \/ offset = Len(data)
    \/ /\ offset < Len(data)
       /\ WellFormedQuestion(data, offset)
       /\ WholeQuestions(data, FirstZero(data, offset + 1) + 4)
\* the offsets at which those questions start
RECURSIVE QuestionStarts(_, _)
QuestionStarts(data, offset) ==
    IF offset >= Len(data) THEN <<>>
    ELSE <<offset>> \o QuestionStarts(data, FirstZero(data, offset + 1) + 4)

\* C15: for a DNS message that holds n well-formed questions back to back
\* after the 12-byte header and whose header count is q, next() on questions()
\* starts at offset 12, advances by each question's length and yields exactly
\* min(q, n) questions, the i-th with the name, type and class of the i-th
\* question of the message.
C15_QuestionIteration ==
    (qiter # NoIter /\ WholeQuestions(msg.data, 12)) =>
        LET data == msg.data
            starts == QuestionStarts(data, 12)
            q == Be16(data, 5)
            m == IF q < Len(starts) THEN q ELSE Len(starts)
        IN  /\ Len(qiter.yielded) <= m
            /\ qiter.state = "Done" => Len(qiter.yielded) = m
            /\ \A i \in 1..Len(qiter.yielded) :
                  LET y == qiter.yielded[i]
                      z == FirstZero(data, starts[i] + 1)
                  IN  /\ y.at = starts[i]
                      /\ ~y.q.qname.fault /\ y.q.qname.val = DottedText(data, starts[i])
                      /\ ~y.q.qtype.fault /\ ~y.q.qclass.fault
                      /\ EnumIntoPrimitive(DnsRrType, "Reserved", y.q.qtype.val)
                            = Be16(data, z + 1)
                      /\ EnumIntoPrimitive(DnsClass, "Reserved", y.q.qclass.val)
                            = Be16(data, z + 3)

\* the bytes of the first n of the questions, in order
RECURSIVE Joined(_, _)
Joined(questions, n) ==
    IF n = 0 THEN <<>> ELSE Joined(questions, n - 1) \o questions[n].data

FlagBit ==
    [ CWR |-> 128, ECE |-> 64, URG |-> 32, ACK |-> 16, PSH |-> 8, RST |-> 4,
      SYN |-> 2, FIN |-> 1 ]

\* C21: for every 8-bit value w in the TCP flags byte, the flags read back are
\* exactly those whose bit is set in w, and converting them back to u8 gives w.
C21_TcpFlagsBits ==
    (input.op = "convert" /\ input.T = "TcpFlags" /\ result # NoResult) =>
        /\ \A f \in DOMAIN FlagBit :
              (f \in result.value) <=> ((input.raw \div FlagBit[f]) % 2 = 1)
        /\ result.value \subseteq DOMAIN FlagBit
        /\ result.back # None => result.back = Some(input.raw)

\* C21 witness: 0b0001_0010 read as SYN and ACK alone, and converted back to 18.
C21_Witness ==
    /\ input.op = "convert" /\ input.T = "TcpFlags" /\ input.raw = 18
    /\ result # NoResult /\ result.value = {"SYN", "ACK"} /\ result.back = Some(18)

\* the catch-all variant of each open enumeration
CatchAll(T) == IF T \in {"DnsOpCode", "DnsRCode"} THEN "Unassigned" ELSE "Reserved"

\* C22: for EthType, DnsOpCode, DnsClass and DnsRCode over u8 and every raw
\* value n of the storage width, into_underlay(from_underlay(n)) = n, and a
\* value kept in the catch-all variant carries n itself.
C22_EnumRoundTrip ==
    (input.op = "convert" /\ input.T # "TcpFlags" /\ result # NoResult) =>
        /\ result.value.name = CatchAll(input.T) => result.value.raw = input.raw
        /\ result.back # None => result.back = Some(input.raw)

\* C22 witness: 200 matches no DnsRCode variant, is kept as Unassigned(200) and
\* converts back to 200; 0x0800 is EthType::Ipv4 and converts back to 0x0800.
C22_Witness ==
    /\ input.op = "convert" /\ result # NoResult /\ result.back = Some(input.raw)
    /\ \/ /\ input.T = "DnsRCode" /\ input.raw = 200
          /\ result.value = [name |-> "Unassigned", raw |-> 200]
       \/ /\ input.T = "EthType" /\ input.raw = 2048
          /\ result.value.name = "Ipv4"

(***************************************************************************)
(* Properties of the byte order and of the two paths of Field              *)
(***************************************************************************)
\* the storage value a set of v leaves: v shifted into place where the mask
\* has a bit, the prior storage value elsewhere (bits, most significant first)
StorageAfter(F, prior, v) ==
    LET w == 8 * F.U.size
        m == LowBits(BytesBits(F.mask), w)
        u == IntoUnderlay(F.T, F.U, v)
    IN  [i \in 1..w |-> IF m[i] = 1 THEN (IF i + F.shift <= w THEN u[i + F.shift] ELSE 0)
                        ELSE prior[i]]
\* the big-endian and the little-endian encoding of a storage value
BigEndian(bits) == [k \in 1..(Len(bits) \div 8) |-> BitsNat(SubSeq(bits, 8 * k - 7, 8 * k))]
LittleEndian(bits) ==
    [k \in 1..(Len(bits) \div 8) |->
        BitsNat(SubSeq(bits, Len(bits) - 8 * k + 1, Len(bits) - 8 * k + 8))]

\* C23: for an integer-backed field, the bytes in memory after set(v) are the
\* big-endian encoding of the masked-and-shifted storage value in MSB mode and
\* its little-endian encoding in LSB mode, and get() returns v in both modes.
C23_ByteOrder ==
    (fsets > 0 /\ fspec.U.kind = "int" /\ Fits(fspec, flast[1])) =>
        /\ fspec.msb =>
              fmem = BigEndian(StorageAfter(fspec, BytesBits(fprev), flast[1]))
        /\ ~fspec.msb =>
              fmem = LittleEndian(StorageAfter(fspec, BytesBits(Reverse(fprev)), flast[1]))
        /\ fgot # NoValue => fgot = flast

\* C23 witness: the 16-bit field with mask 0x0F00 and shift 8 in LSB mode,
\* zeroed and set to 0x0F, holds the bytes 00 0F and reads 0x0F.
C23_Witness ==
    /\ fspec = Lsb(TestField) /\ fprev = <<0, 0>> /\ flast = <<NatBits(15, 16)>>
    /\ fmem = <<0, 15>> /\ fgot = flast

\* the mask is written out, has every bit of the storage and the shift is 0
CoversStorage(F) ==
    /\ F.mask # U64_MAX /\ F.shift = 0
    /\ LowBits(BytesBits(F.mask), 8 * F.U.size) = Ones(8 * F.U.size)
\* the same field declared without a mask
WithDefaultMask(F) == [F EXCEPT !.mask = U64_MAX]

\* C27: a field whose written-out mask covers its whole storage with shift 0
\* stores, for every value and every prior content, the bytes the same field
\* with the default mask stores (the value alone, nothing of the prior
\* content), and reads the same value.
C27_PathsAgree ==
    (fsets > 0 /\ CoversStorage(fspec)) =>
        /\ fmem = FieldSet(WithDefaultMask(fspec), fprev, flast[1])
        /\ fmem = FieldSet(WithDefaultMask(fspec), [i \in 1..fspec.U.size |-> 0], flast[1])
        /\ fgot # NoValue =>
              /\ fgot = <<FieldGet(WithDefaultMask(fspec), fmem)>>
              /\ fgot = flast

\* C27 witness: the IPv4 protocol field (mask 0xFF over u8) set over a byte
\* that was not zero, and read back.
C27_Witness ==
    /\ fspec.name = "ProtocolSpec" /\ fsets > 0 /\ fprev = <<255>>
    /\ flast = <<[name |-> "Tcp", raw |-> 0]>> /\ fmem = <<6>> /\ fgot = flast

(***************************************************************************)
(* Properties of the byte-array storage                                    *)
(***************************************************************************)
\* an N-byte array read as a big-endian unsigned integer (its 8*N bits), that
\* integer shifted left and right and truncated to 8*N bits, and the low
\* 8*N bits of a u64 mask
ShiftedLeft(bits, s) ==
    [i \in 1..Len(bits) |-> IF i + s <= Len(bits) THEN bits[i + s] ELSE 0]
ShiftedRight(bits, s) ==
    [i \in 1..Len(bits) |-> IF i - s >= 1 THEN bits[i - s] ELSE 0]
LowMaskBits(m, n) == SubSeq(BytesBits(m), 64 - 8 * n + 1, 64)

\* what C26 states of the call in `input`
ArrayAsInteger ==
    LET a == BytesBits(input.a)
        n == Len(input.a)
    IN  /\ ~result.fault
        /\ CASE input.op = "shl" -> BytesBits(result.val) = ShiftedLeft(a, input.s)
             [] input.op = "shr" -> BytesBits(result.val) = ShiftedRight(a, input.s)
             [] input.op = "mask" ->
                    BytesBits(result.val) = [i \in 1..(8 * n) |-> a[i] * LowMaskBits(input.m, n)[i]]
             [] input.op = "bitand" ->
                    BytesBits(result.val) = [i \in 1..(8 * n) |-> a[i] * BytesBits(input.rhs)[i]]
             [] input.op = "bitor" ->
                    BytesBits(result.val) =
                        [i \in 1..(8 * n) |-> IF a[i] + BytesBits(input.rhs)[i] > 0 THEN 1 ELSE 0]
             [] input.op \in {"from_be", "to_be"} -> result.val = input.a
             [] input.op \in {"from_le", "to_le"} ->
                    result.val = [i \in 1..n |-> input.a[n + 1 - i]]

\* C26: for [u8; N] storage, N in {3, 5, 6, 7}, read as an N-byte big-endian
\* integer: shl(s) and shr(s) are the integer shifted by s and truncated to N
\* bytes, mask(m) is the integer ANDed with the low 8*N bits of m, bitand and
\* bitor are the integer AND and OR, from_be / to_be are the identity and
\* from_le / to_le reverse the bytes.
C26_ArrayAsInteger ==
    (input.op \in {"shl", "shr", "mask", "bitand", "bitor", "from_be", "from_le",
                   "to_be", "to_le"} /\ result # NoResult) => ArrayAsInteger

(***************************************************************************)
(* Properties of the bounds of a question                                  *)
(***************************************************************************)
\* the type and class fields of a question lie inside its buffer, and reading
\* them does not fault
FieldsInside(made) ==
    /\ made.res.name_len + 5 <= Len(made.res.data)
    /\ ~made.qtype.fault /\ ~made.qclass.fault

\* C28: every question DnsQuestion::new accepts, and every question yielded by
\* Dns::questions(), has its type and class fields inside its buffer (name
\* position + 5 <= buffer length), so qtype() and qclass() do not read past the
\* end of the buffer.
C28_QuestionFieldsInBuffer ==
    /\ (question # NoQuestion /\ question.src = "new" /\ question.res.ok) =>
          FieldsInside(question)
    /\ qiter # NoIter =>
          \A i \in DOMAIN qiter.yielded : FieldsInside(qiter.yielded[i].q)

(***************************************************************************)
(* Properties of the accessors of a mutable view                           *)
(***************************************************************************)
\* the last set made through the view
LastSet == view.sets[Len(view.sets)]
\* byte i (from 1) of the buffer lies in the declared range of f
InRange(f, i) == f.range[1] < i /\ i <= f.range[2]
\* the buffer with every byte outside the declared range of f changed
OutsideChanged(data, f) ==
    [i \in 1..Len(data) |-> IF InRange(f, i) THEN data[i] ELSE 255 - data[i]]

\* C24: for every accessor of every layer the storage is as many bytes as the
\* declared range is long; what a get returns is fixed by the bytes of that
\* range alone (it is the same over a buffer whose every other byte differs);
\* and a set leaves every byte outside the range as it was and the length of
\* the buffer unchanged.
C24_AccessorStaysInRange ==
    view.layer \in MutLayers =>
        /\ \A n \in FieldNames(view) :
              LET f == Accessors(view)[n]
              IN  f.range[2] - f.range[1] = f.spec.U.size
        /\ out.op = "get" =>
              \A n \in FieldNames(view) :
                 LET f == Accessors(view)[n]
                 IN  ~out.res[n].fault =>
                        out.res[n].val = Read(OutsideChanged(view.data, f), f)
        /\ (out.op = "set" /\ ~out.fault) =>
              LET f == Accessors(view)[LastSet.field]
              IN  /\ Len(view.data) = Len(LastSet.before)
                  /\ \A i \in 1..Len(view.data) :
                        ~InRange(f, i) => view.data[i] = LastSet.before[i]
                  /\ Read(view.data, f) = LastSet.v
\* a two-byte field of a question set at an odd offset, and an IPv4 header
\* read after a set that changed it
C24_Witness ==
    \/ /\ view.layer = "DnsQuestion" /\ out.op = "set" /\ ~out.fault
       /\ LastSet.field = "qtype" /\ view.data # LastSet.before
    \/ /\ view.layer = "Ipv4" /\ out.op = "get" /\ view.data # buf
       /\ view.sets[1].field = "fragment_offset"

\* the sets of the view's header-length field that went through, oldest first
HeaderLengthField == IF view.layer = "Ipv4" THEN "ihl" ELSE "data_offset"
HeaderLengthSets ==
    SelectSeq(view.sets, LAMBDA s : s.field = HeaderLengthField /\ ~s.fault)
\* C25: after ihl_mut().set(k) on an Ipv4 view or data_offset_mut().set(k) on
\* a Tcp view, every later payload() is data[4k..] and every later options()
\* is data[20..4k] of the view's bytes as they are now, k being the value set
\* last; both panic when 4k is past the end of the buffer.
C25_HeaderLengthFollowed ==
    (view.layer \in {"Ipv4", "Tcp"} /\ HeaderLengthSets # <<>>) =>
        LET k == BitsNat(HeaderLengthSets[Len(HeaderLengthSets)].v)
            len == Len(view.data)
        IN  /\ out.op = "payload" => out.res = Sliced(view.data, 4 * k, len)
            /\ out.op = "options" =>
                  /\ 4 * k > len => out.res.fault
                  /\ (4 * k <= len /\ k >= 5) =>
                        out.res = Sliced(view.data, IPV4_MIN_HEADER_LENGTH, 4 * k)

(***************************************************************************)
(* Properties of sets on fields that share storage                         *)
(***************************************************************************)
\* the declared ranges of two accessors have a byte in common
ShareByte(f, g) == f.range[1] < g.range[2] /\ g.range[1] < f.range[2]
\* the bytes of the view after its i-th set
AfterSet(i) == IF i < Len(view.sets) THEN view.sets[i + 1].before ELSE view.data
\* C29: when two successive sets on a view go to different fields whose
\* ranges share a byte (QR, Opcode, AA, TC, RD in byte 2 and RA, Z, RCode in
\* byte 3 of a DNS header; version and IHL, DSCP and ECN, flags and fragment
\* offset of an IPv4 header) and write values that fit, the bytes they leave
\* are the bytes the two sets leave when made in the other order, and each of
\* the two fields then reads back the value written to it.
C29_SharedByteSetsCommute ==
    view.layer \in Mutable =>
        \A i \in 1..(Len(view.sets) - 1) :
            LET first == view.sets[i]
                second == view.sets[i + 1]
                f == Accessors(view)[first.field]
                g == Accessors(view)[second.field]
                after == AfterSet(i + 1)
            IN  ( /\ first.field # second.field /\ ShareByte(f, g)
                  /\ ~first.fault /\ ~second.fault )
                => /\ after = Write(Write(first.before, g, second.v), f, first.v)
                   /\ Read(after, f) = first.v
                   /\ Read(after, g) = second.v
\* opcode and RD of a DNS header both changed, and flags set after the
\* fragment offset of an IPv4 header
C29_Witness ==
    /\ view.layer \in Mutable /\ Len(view.sets) = 2 /\ out.op = "set"
    /\ view.data # view.sets[2].before /\ view.sets[2].before # view.sets[1].before
    /\ \/ view.layer = "Dns" /\ view.sets[1].field = "opcode" /\ view.sets[2].field = "rd"
       \/ /\ view.layer = "Ipv4" /\ view.sets[1].field = "fragment_offset"
          /\ view.sets[2].field = "flags"

(***************************************************************************)
(* Properties of the end of the two DNS iterators                          *)
(***************************************************************************)
\* the smaller of two numbers
Min(a, b) == IF a < b THEN a ELSE b
\* the call of next() in this step yielded an item
Yields(it) == it # NoIter /\ Len(it.yielded') = Len(it.yielded) + 1
\* C30: every next() that yields moves the iterator's offset forward, by the
\* length byte plus one for a label (the number of bytes of the label
\* yielded) and by len() of the question, at least 4, for a question; the
\* label iterator yields at most as many labels as the name has bytes and
\* the question iterator at most min(question count, bytes of the message)
\* questions; and a next() made after one that returned None returns None
\* again and leaves the iterator as it was.
C30_IteratorsEnd ==
    /\ [](liter # NoIter => Len(liter.yielded) <= Len(dname.data))
    /\ [](qiter # NoIter =>
            Len(qiter.yielded) <= Min(Be16(msg.data, 5), Len(msg.data)))
    /\ [][ /\ (liter # NoIter /\ liter' # liter) =>
               /\ liter.state = "Done" =>
                    (liter'.state = "Done" /\ liter'.yielded = liter.yielded
                        /\ liter'.offset = liter.offset)
               /\ Yields(liter) =>
                    LET item == liter'.yielded[Len(liter'.yielded)]
                    IN  /\ Len(item) = dname.data[liter.offset + 1] + 1
                        /\ liter'.offset = liter.offset + Len(item)
                        /\ liter'.offset > liter.offset
           /\ (qiter # NoIter /\ qiter' # qiter) =>
               /\ qiter.state = "Done" =>
                    (qiter'.state = "Done" /\ qiter'.yielded = qiter.yielded
                        /\ qiter'.offset = qiter.offset /\ qiter'.current = qiter.current)
               /\ Yields(qiter) =>
                    LET item == qiter'.yielded[Len(qiter'.yielded)]
                    IN  /\ item.at = qiter.offset
                        /\ qiter'.offset = qiter.offset + item.q.len
                        /\ qiter'.offset >= qiter.offset + 4
                        /\ qiter'.current = qiter.current + 1 ]_vars
\* both iterators asked again after their first None: the name after three
\* labels, the message after two questions out of a count of three
C30_Witness ==
    /\ liter # NoIter /\ liter.state = "Done" /\ liter.nones = MaxNones
    /\ Len(liter.yielded) >= 3
    /\ qiter # NoIter /\ qiter.state = "Done" /\ qiter.nones = MaxNones
    /\ Len(qiter.yielded) = 2 /\ Be16(msg.data, 5) = 3

====
